---- MODULE Spec2Model ----
(***************************************************************************)
(* Transaction submission pipeline of toshieth (src/toshieth/jsonrpc.py):  *)
(* send_transaction, get_transaction_count and cancel_queued_transaction   *)
(* running as concurrent coroutines against the ledger store, the lock     *)
(* service and the task dispatcher.  Every await of the code is one step.  *)
(* Token balance cache of toshieth (src/toshieth/erc20manager.py):         *)
(* update_token_cache against token_balances, the cooldown keys and the    *)
(* notification dispatcher, with add_token and remove_token of jsonrpc.py. *)
(***************************************************************************)
EXTENDS Integers, Sequences, FiniteSets, TLC

\* ------------------------------------------------------------- bounds ---
MaxRows == 2            \* rows the transactions table may hold
MaxNonce == 1           \* nonces range over 0..MaxNonce
TickSeconds == 5        \* seconds that pass in one Tick
MaxBalance == 2         \* token balances range over 0..MaxBalance
MaxNotifications == 2   \* send_notification tasks the model follows
RefreshTick == 30       \* seconds that pass in one CooldownTick
MaxRefreshes == 2       \* wildcard refreshes requested per address

\* -------------------------------------------------- program constants ---
LockTTL == 5            \* RedisLock(..., ex=5)
RequestTimeout == 5     \* JsonRPCClient(..., request_timeout=5.0)
CooldownTTL == 60       \* redis.set(..., expire=60, ...)
Manual == 2             \* visibility written by add_token
Hidden == 0             \* visibility written by remove_token
Auto == 1               \* visibility of a row the refresher inserts
IntrinsicGas == 21000   \* gas of a plain transfer               (src/toshieth/jsonrpc.py:276)

Calls == {"c1", "c2"}
Senders == {"a"}
Nonces == 0..MaxNonce
GasPrices == {1, 2}
Values == {0, 1}
StartGas == {IntrinsicGas - 1, IntrinsicGas}
\* on-chain balance of the sender at the start: two transfers at gas price 1
InitialBalance == 2 * IntrinsicGas
NetworkIds == {"none", "configured", "other"}
Signatures == {"none", "matching", "mismatching", "malformed"}

\* the transactions submitted concurrently, and those submitted one at a time
Txs == [sender : Senders, nonce : Nonces, gasprice : GasPrices,
        value : {0}, startgas : {IntrinsicGas}]
WideTxs == [sender : Senders, nonce : Nonces, gasprice : GasPrices,
            value : Values, startgas : StartGas]

NoTx == [sender |-> "none", nonce |-> 0, gasprice |-> 0, value |-> 0, startgas |-> 0]

\* hex strings: the digits' value and the number of digits; "0x" has none
HexWord(n) == [hex |-> n, width |-> 64]     \* a 32-byte word as eth_call returns it
RECURSIVE Digits(_)
Digits(n) == IF n < 16 THEN 1 ELSE 1 + Digits(n \div 16)
Hex(n) == [hex |-> n, width |-> Digits(IF n < 0 THEN -n ELSE n)]   \* python's hex(n)
Empty == [hex |-> 0, width |-> 0]           \* "0x"
Failed == [hex |-> 0, width |-> -1]         \* a future whose result() raises
Undecodable == [hex |-> 0, width |-> -2]    \* a string that is no number
Absent == [hex |-> 0, width |-> -3]         \* None: an argument not given, a column that is NULL
ZeroWord == HexWord(0)

None == -1                                  \* python's None where a number is expected
parse_int(value) == IF value.width < 0 THEN None ELSE value.hex

Tokens == <<"t1", "t2">>        \* table tokens, in the order the SELECT returns

\* tx.data: the selector and, after it, 32-byte words that hold addresses and
\* one that holds an amount
NoCalldata == [selector |-> "", addresses |-> <<>>, amount |-> 0]
Transfer(to, amount) == [selector |-> "0xa9059cbb", addresses |-> <<to>>, amount |-> amount]
TransferFrom(from, to, amount) ==
    [selector |-> "0x23b872dd", addresses |-> <<from, to>>, amount |-> amount]
NoTxData == [to |-> "none", data |-> NoCalldata]

VARIABLES
    rows,        \* table transactions, indexed by transaction_id
    locks,       \* lock service: key -> [held, ex, ttl]
    updates,     \* update_transaction tasks dispatched and not yet handled
    triggers,    \* the process_transaction_queue tasks dispatched, in order
    nwNonce,     \* eth_getTransactionCount of each sender
    nwBalance,   \* eth_getBalance of each sender
    pc,          \* position of each send_transaction call
    tx,          \* the decoded transaction of each call
    existing,    \* transaction_id fetched at line 397, 0 for None
    nw_nonce,    \* nw_nonce of get_transaction_count, line 96
    result,      \* what the call returns or raises
    wait,        \* seconds the call has waited for its pending RPC
    cancel,      \* the cancel_queued_transaction call in progress
    token_balances, \* table token_balances: (contract_address, eth_address) -> row
    cooldown,    \* redis keys bulk_token_update:<address>
    notifications,  \* send_notification tasks dispatched, per address
    upd,         \* the update_token_cache invocations
    skel,        \* the create_transaction_skeleton call in progress
    token_registrations, \* table token_registrations: the eth_address column
    refreshes,   \* update_token_cache("*", address) tasks dispatched, per address
    gtb,         \* the get_token_balances calls
    txdata,      \* tx.to and tx.data of each send_transaction call
    token_transactions  \* table token_transactions

vars == <<rows, locks, updates, triggers, nwNonce, nwBalance,
          pc, tx, existing, nw_nonce, result, wait,
          cancel, token_balances, cooldown, notifications, upd,
          skel, token_registrations, refreshes, gtb,
          txdata, token_transactions>>

store == <<rows, updates, triggers>>
chain == <<nwNonce, nwBalance>>
locals == <<tx, existing, nw_nonce>>
ledger == <<txdata, token_transactions>>
submission == <<locks, triggers, chain, pc, locals, result, wait, ledger>>
tokenv == <<token_balances, cooldown, notifications, upd>>
queries == <<skel, token_registrations, refreshes, gtb>>
others == <<cancel, tokenv, queries>>
aside == <<others, ledger>>

\* ------------------------------------------------------------ errors ----
NoResult == [id |-> "", message |-> ""]
TxHash(t) == [id |-> "ok", message |-> <<t.sender, t.nonce, t.gasprice, t.value, t.startgas>>]
InvalidSignature == [id |-> "invalid_signature", message |-> "Invalid Signature"]
MissingSignature == [id |-> "missing_signature", message |-> "Missing Signature"]
InvalidNetworkId == [id |-> "invalid_network_id", message |-> "Invalid Network ID"]
NonceAlreadyUsed == [id |-> "invalid_nonce", message |-> "Nonce already used"]
InsufficientFunds == [id |-> "insufficient_funds", message |-> "Insufficient Funds"]
NonceTooLow == [id |-> "invalid_nonce", message |-> "Provided nonce is too low"]
NonceTooHigh == [id |-> "invalid_nonce", message |-> "Provided nonce is too high"]
GasTooLow == [id |-> "invalid_transaction", message |-> "Transaction gas is too low"]
RpcError == [id |-> "internal_error", message |-> "rpc request failed"]
Uncaught == [id |-> "internal_error", message |-> "unhandled exception"]

\* ----------------------------------------------------------- helpers ----
Max(a, b) == IF a < b THEN b ELSE a

Statuses == {"new", "queued", "unconfirmed", "confirmed", "error"}
Pending == {"new", "queued", "unconfirmed"}
Terminal == {"confirmed", "error"}

Key(t) == <<t.sender, t.nonce>>
Keys == Senders \X Nonces
Free == [held |-> FALSE, ex |-> FALSE, ttl |-> 0]

RowIds == 1..Len(rows)

\* value + gas * gas_price of a row
Cost(r) == r.value + r.gas * r.gas_price

\* tx.value + tx.startgas * tx.gasprice
TxCost(t) == t.value + t.startgas * t.gasprice

\* calculate_transaction_hash: a function of the signed content
Hash(r) == <<r.from_address, r.nonce, r.gas_price, r.value, r.gas>>

RECURSIVE SumCost(_)
SumCost(S) ==
    IF S = {} THEN 0
    ELSE LET i == CHOOSE j \in S : TRUE IN Cost(rows[i]) + SumCost(S \ {i})

Active(p) == pc[p] \notin {"idle", "done"}
InCritical(p) ==
    pc[p] \in {"existing", "balances", "count_rpc", "count_db", "insert",
               "analytics", "unlock"}
InRpc(p) == pc[p] \in {"balances", "count_rpc"}

\* ------------------------------------------ external collaborators -------
\* BalanceMixin.get_balances: the on-chain balance less value + gas * gas_price
\* of the address's rows in status new, queued or unconfirmed; never negative.
\* Recipients of the modelled transactions are not senders of the model, so
\* no pending row credits the address.
get_balances(address) ==
    LET pending == {i \in RowIds : /\ rows[i].from_address = address
                                   /\ rows[i].status \in Pending}
    IN Max(0, nwBalance[address] - SumCost(pending))

\* RedisLock.__aenter__: SET key 1 NX EX ttl
acquire(key, ttl) == [locks EXCEPT ![key] = [held |-> TRUE, ex |-> TRUE, ttl |-> ttl]]

\* RedisLock.__aexit__: DEL key, whoever set it
release(key) == [locks EXCEPT ![key] = Free]

\* manager_dispatcher.update_transaction(transaction_id, status): fire and forget
update_transaction(transaction_id, status) ==
    updates' = updates \cup {[transaction_id |-> transaction_id, status |-> status]}

\* ---------------------------------------------------- send_transaction ---
\* lines 336-384: decoding, signature handling and the network id check
Validate(wellformed, signed, signature, network_id) ==
    IF ~wellformed THEN [id |-> "invalid_transaction", message |-> "Invalid Transaction"]
    ELSE IF signed /\ signature \in {"mismatching", "malformed"} THEN InvalidSignature
    ELSE IF ~signed /\ signature = "none" THEN MissingSignature
    ELSE IF ~signed /\ signature = "malformed" THEN InvalidSignature
    ELSE IF network_id = "other" THEN InvalidNetworkId
    ELSE NoResult

\* rows the SELECT of line 397 may return
ExistingRows(t) ==
    {i \in RowIds : /\ rows[i].from_address = t.sender
                    /\ rows[i].nonce = t.nonce
                    /\ (rows[i].status # "error" \/ rows[i].status = "new")}

\* variant of line 403 that lets an equal gas price overwrite
OverwriteRefused_EqualPasses(e, t) ==
    e # 0 /\ (rows[e].gas_price > t.gasprice \/ rows[e].status = "confirmed")

\* line 403: the overwrite is refused
OverwriteRefused(e, t) ==
    e # 0 /\ (rows[e].gas_price >= t.gasprice \/ rows[e].status = "confirmed")

\* variant of lines 408-409 that credits nothing for the superseded row
Refunded_NoCredit(bal, e) == bal

\* lines 408-409: the balance the fund check compares
Refunded(bal, e) == IF e # 0 THEN bal + Cost(rows[e]) ELSE bal

\* line 411
FundsShort(bal, t) == bal < TxCost(t)

\* variant of lines 107-114 that returns the database nonce whenever there is one
NextNonce_IgnoresNetwork(address, nw) ==
    LET pending == {rows[i].nonce : i \in {j \in RowIds :
                        /\ rows[j].from_address = address
                        /\ rows[j].status \in Pending}}
    IN IF pending # {}
       THEN (CHOOSE n \in pending : \A m \in pending : m <= n) + 1
       ELSE nw

\* lines 100-114 of get_transaction_count, given the network nonce
NextNonce(address, nw) ==
    LET pending == {rows[i].nonce : i \in {j \in RowIds :
                        /\ rows[j].from_address = address
                        /\ rows[j].status \in Pending}}
    IN IF pending # {}
       THEN LET nonce == (CHOOSE n \in pending : \A m \in pending : m <= n) + 1
            IN IF nonce < nw THEN nw ELSE nonce
       ELSE nw

\* variant of lines 418-421 that raises one error for both directions
NonceCheck_OneError(t, c) ==
    IF t.nonce < c THEN NonceTooLow
    ELSE IF t.nonce > c THEN NonceTooLow
    ELSE NoResult

\* lines 418-421
NonceCheck(t, c) ==
    IF t.nonce < c THEN NonceTooLow
    ELSE IF t.nonce > c THEN NonceTooHigh
    ELSE NoResult

\* tx.intrinsic_gas_used: the base cost and the cost of each byte of data
GTXDATAZERO == 4
GTXDATANONZERO == 68
intrinsic_gas_used(data) ==
    IntrinsicGas + GTXDATAZERO * data.zero + GTXDATANONZERO * data.nonzero

\* the bytes of tx.data as the intrinsic gas counts them
ByteCounts(data) ==
    IF data = NoCalldata THEN [zero |-> 0, nonzero |-> 0]
    ELSE [zero |-> 12 * Len(data.addresses) + (IF data.amount > 0 THEN 31 ELSE 32),
          nonzero |-> 4 + 20 * Len(data.addresses) + (IF data.amount > 0 THEN 1 ELSE 0)]

\* line 423: tx.intrinsic_gas_used > tx.startgas
GasCheck(t, data) ==
    IF intrinsic_gas_used(ByteCounts(data)) > t.startgas THEN GasTooLow ELSE NoResult

\* line 436: len(data_encoder(tx.data)), "0x" and two digits for each byte
EncodedLength(data) ==
    IF data = NoCalldata THEN 2 ELSE 2 + 8 + 64 * (Len(data.addresses) + 1)

\* variant of lines 437-439 that looks at the selector only
IsTransfer_AnyLength(data) == data.selector \in {"0xa9059cbb", "0x23b872dd"}

\* lines 437-439
IsTransfer(data) ==
    \/ data.selector = "0xa9059cbb" /\ EncodedLength(data) = 138
    \/ data.selector = "0x23b872dd" /\ EncodedLength(data) = 202

\* lines 437-445: the row of table tokens for tx.to, when the data is a transfer
erc20_token(to_address, data) ==
    IsTransfer(data) /\ \E k \in 1..Len(Tokens) : Tokens[k] = to_address

\* lines 462-475: the entry decoded from the calldata
TokenTransaction(transaction_id, from_address, to_address, data) ==
    [transaction_id |-> transaction_id, transaction_log_index |-> 0,
     contract_address |-> to_address,
     from_address |-> IF data.selector = "0x23b872dd" THEN data.addresses[1] ELSE from_address,
     to_address |-> IF data.selector = "0x23b872dd" THEN data.addresses[2] ELSE data.addresses[1],
     value |-> Hex(data.amount)]

\* an exception raised inside the block of line 390
Raise(p, err) ==
    /\ result' = [result EXCEPT ![p] = err]
    /\ pc' = [pc EXCEPT ![p] = "unlock"]
    /\ existing' = [existing EXCEPT ![p] = 0]
    /\ nw_nonce' = [nw_nonce EXCEPT ![p] = 0]

\* variant of lines 423-445 that leaves line 434 out
Admit_KeepsOldRow(p, e) ==
    IF GasCheck(tx[p], txdata[p].data) # NoResult
    THEN /\ Raise(p, GasCheck(tx[p], txdata[p].data))
         /\ UNCHANGED updates
    ELSE /\ pc' = [pc EXCEPT ![p] = "insert"]
         /\ nw_nonce' = [nw_nonce EXCEPT ![p] = 0]
         /\ UNCHANGED <<result, existing, updates>>

\* variant of lines 423-445 that asks for the old row to be queued again
Admit_Requeues(p, e) ==
    IF GasCheck(tx[p], txdata[p].data) # NoResult
    THEN /\ Raise(p, GasCheck(tx[p], txdata[p].data))
         /\ UNCHANGED updates
    ELSE /\ pc' = [pc EXCEPT ![p] = "insert"]
         /\ nw_nonce' = [nw_nonce EXCEPT ![p] = 0]
         /\ UNCHANGED <<result, existing>>
         /\ IF e # 0 THEN update_transaction(e, "queued")
                     ELSE UNCHANGED updates

\* lines 423-445: the minimal gas check, then the forced overwrite
Admit(p, e) ==
    IF GasCheck(tx[p], txdata[p].data) # NoResult
    THEN /\ Raise(p, GasCheck(tx[p], txdata[p].data))
         /\ UNCHANGED updates
    ELSE /\ pc' = [pc EXCEPT ![p] = "insert"]
         /\ nw_nonce' = [nw_nonce EXCEPT ![p] = 0]
         /\ UNCHANGED <<result, existing>>
         /\ IF e # 0 THEN update_transaction(e, "error")
                     ELSE UNCHANGED updates

\* lines 336-387 for a transaction to to_address with the calldata data
Submit(p, t, wellformed, signed, signature, network_id, to_address, data) ==
    /\ pc[p] = "idle"
    /\ Len(rows) + Cardinality({q \in Calls : Active(q)}) < MaxRows
    /\ LET err == Validate(wellformed, signed, signature, network_id)
       IN IF err # NoResult
          THEN /\ pc' = [pc EXCEPT ![p] = "done"]
               /\ result' = [result EXCEPT ![p] = err]
               /\ UNCHANGED <<tx, txdata>>
          ELSE /\ pc' = [pc EXCEPT ![p] = "lock"]
               /\ tx' = [tx EXCEPT ![p] = t]
               /\ txdata' = [txdata EXCEPT ![p] = [to |-> to_address, data |-> data]]
               /\ UNCHANGED result
    /\ UNCHANGED <<store, chain, locks, existing, nw_nonce, wait>>
    /\ UNCHANGED <<others, token_transactions>>

\* lines 336-387 for a plain transfer of ether to an address that is no token
Start(p, t, wellformed, signed, signature, network_id) ==
    Submit(p, t, wellformed, signed, signature, network_id, "b", NoCalldata)

\* variant of lines 390-393 that enters the block although the key is set
AcquireLock_Enters(p) ==
    /\ pc[p] = "lock"
    /\ locks' = acquire(Key(tx[p]), LockTTL)
    /\ pc' = [pc EXCEPT ![p] = "existing"]
    /\ UNCHANGED <<store, chain, locals, result, wait>>
    /\ UNCHANGED aside

\* variant of lines 390-393 that sets the key without ex
AcquireLock_NoExpiry(p) ==
    /\ pc[p] = "lock"
    /\ IF locks[Key(tx[p])].held
       THEN /\ result' = [result EXCEPT ![p] = NonceAlreadyUsed]
            /\ pc' = [pc EXCEPT ![p] = "done"]
            /\ UNCHANGED locks
       ELSE /\ locks' = [locks EXCEPT ![Key(tx[p])] = [held |-> TRUE, ex |-> FALSE, ttl |-> 0]]
            /\ pc' = [pc EXCEPT ![p] = "existing"]
            /\ UNCHANGED result
    /\ UNCHANGED <<store, chain, locals, wait>>
    /\ UNCHANGED aside

\* lines 390-393: async with RedisLock(key, raise_when_locked=..., ex=5)
AcquireLock(p) ==
    /\ pc[p] = "lock"
    /\ IF locks[Key(tx[p])].held
       THEN /\ result' = [result EXCEPT ![p] = NonceAlreadyUsed]
            /\ pc' = [pc EXCEPT ![p] = "done"]
            /\ UNCHANGED locks
       ELSE /\ locks' = acquire(Key(tx[p]), LockTTL)
            /\ pc' = [pc EXCEPT ![p] = "existing"]
            /\ UNCHANGED result
    /\ UNCHANGED <<store, chain, locals, wait>>
    /\ UNCHANGED aside

\* lines 396-404
CheckOverwrite(p) ==
    /\ pc[p] = "existing"
    /\ \E e \in (IF ExistingRows(tx[p]) = {} THEN {0} ELSE ExistingRows(tx[p])) :
         IF OverwriteRefused(e, tx[p])
         THEN Raise(p, NonceAlreadyUsed)
         ELSE /\ existing' = [existing EXCEPT ![p] = e]
              /\ pc' = [pc EXCEPT ![p] = "balances"]
              /\ UNCHANGED <<result, nw_nonce>>
    /\ UNCHANGED <<store, chain, locks, tx, wait>>
    /\ UNCHANGED aside

\* lines 407-412, and for a superseding transaction lines 423-445
CheckFunds(p) ==
    /\ pc[p] = "balances"
    /\ wait[p] <= RequestTimeout
    /\ wait' = [wait EXCEPT ![p] = 0]
    /\ IF FundsShort(Refunded(get_balances(tx[p].sender), existing[p]), tx[p])
       THEN /\ Raise(p, InsufficientFunds)
            /\ UNCHANGED updates
       ELSE IF existing[p] = 0
       THEN /\ pc' = [pc EXCEPT ![p] = "count_rpc"]
            /\ UNCHANGED <<result, updates, existing, nw_nonce>>
       ELSE Admit(p, existing[p])
    /\ UNCHANGED <<rows, triggers, chain, locks, tx>>
    /\ UNCHANGED aside

\* line 96 of get_transaction_count, called from line 416
GetNetworkNonce(p) ==
    /\ pc[p] = "count_rpc"
    /\ wait[p] <= RequestTimeout
    /\ nw_nonce' = [nw_nonce EXCEPT ![p] = nwNonce[tx[p].sender]]
    /\ pc' = [pc EXCEPT ![p] = "count_db"]
    /\ wait' = [wait EXCEPT ![p] = 0]
    /\ UNCHANGED <<store, chain, locks, tx, existing, result>>
    /\ UNCHANGED aside

\* lines 99-114 of get_transaction_count, then lines 418-445
CheckNonce(p) ==
    /\ pc[p] = "count_db"
    /\ LET c_nonce == NextNonce(tx[p].sender, nw_nonce[p])
       IN IF NonceCheck(tx[p], c_nonce) # NoResult
          THEN /\ Raise(p, NonceCheck(tx[p], c_nonce))
               /\ UNCHANGED updates
          ELSE Admit(p, 0)
    /\ UNCHANGED <<rows, triggers, chain, locks, tx, wait>>
    /\ UNCHANGED aside

\* the row of lines 449-460; the column default of status is new
NewRow(t) ==
    [from_address |-> t.sender, nonce |-> t.nonce, gas_price |-> t.gasprice,
     value |-> t.value, gas |-> t.startgas, status |-> "new"]

\* lines 436-480: the lookup in tokens, the INSERT of the row and, for a
\* transfer to a token, of the token_transactions entry in the same database
\* transaction, the commit, then process_transaction_queue
InsertTx(p) ==
    /\ pc[p] = "insert"
    /\ rows' = Append(rows, NewRow(tx[p]))
    /\ token_transactions' =
          IF erc20_token(txdata[p].to, txdata[p].data)
          THEN token_transactions \cup
                 {TokenTransaction(Len(rows) + 1, tx[p].sender, txdata[p].to, txdata[p].data)}
          ELSE token_transactions
    /\ triggers' = Append(triggers, tx[p].sender)
    /\ pc' = [pc EXCEPT ![p] = "analytics"]
    /\ UNCHANGED <<updates, chain, locks, locals, result, wait>>
    /\ UNCHANGED <<others, txdata>>

\* lines 441-477: the lookup, a statement or the commit raises; the block of
\* line 448 is left without commit and the exception leaves the block of
\* line 390
InsertFail(p) ==
    /\ pc[p] = "insert"
    /\ Raise(p, Uncaught)
    /\ UNCHANGED <<store, chain, locks, tx, wait>>
    /\ UNCHANGED aside

\* lines 483-499: the registration lookups and the track calls
Analytics(p) ==
    /\ pc[p] = "analytics"
    /\ result' = [result EXCEPT ![p] = TxHash(tx[p])]
    /\ pc' = [pc EXCEPT ![p] = "unlock"]
    /\ UNCHANGED <<store, chain, locks, locals, wait>>
    /\ UNCHANGED aside

\* lines 486-499: a lookup in notification_registrations or a track call
\* raises; nothing catches it, so the exception leaves the block of line 390
AnalyticsFail(p) ==
    /\ pc[p] = "analytics"
    /\ Raise(p, Uncaught)
    /\ UNCHANGED <<store, chain, locks, tx, wait>>
    /\ UNCHANGED aside

\* variant of the exit of the lock block that leaves the key to its expiry
ReleaseLock_KeepsKey(p) ==
    /\ pc[p] = "unlock"
    /\ pc' = [pc EXCEPT ![p] = "done"]
    /\ tx' = [tx EXCEPT ![p] = NoTx]
    /\ txdata' = [txdata EXCEPT ![p] = NoTxData]
    /\ UNCHANGED <<store, chain, locks, existing, nw_nonce, result, wait>>
    /\ UNCHANGED <<others, token_transactions>>

\* leaving the async with block of line 390, by return or by exception
ReleaseLock(p) ==
    /\ pc[p] = "unlock"
    /\ locks' = release(Key(tx[p]))
    /\ pc' = [pc EXCEPT ![p] = "done"]
    /\ tx' = [tx EXCEPT ![p] = NoTx]
    /\ txdata' = [txdata EXCEPT ![p] = NoTxData]
    /\ UNCHANGED <<store, chain, existing, nw_nonce, result, wait>>
    /\ UNCHANGED <<others, token_transactions>>

Reset(p) ==
    /\ tx' = [tx EXCEPT ![p] = NoTx]
    /\ txdata' = [txdata EXCEPT ![p] = NoTxData]
    /\ existing' = [existing EXCEPT ![p] = 0]
    /\ nw_nonce' = [nw_nonce EXCEPT ![p] = 0]
    /\ result' = [result EXCEPT ![p] = NoResult]
    /\ wait' = [wait EXCEPT ![p] = 0]

\* line 501, or the error response: the caller has its answer
Return(p) ==
    /\ pc[p] = "done"
    /\ pc' = [pc EXCEPT ![p] = "idle"]
    /\ Reset(p)
    /\ UNCHANGED <<store, chain, locks>>
    /\ UNCHANGED <<others, token_transactions>>

\* an RPC of lines 407 or 416 fails, or gets no answer within request_timeout;
\* the exception leaves the block
RpcFail(p) ==
    /\ InRpc(p)
    /\ Raise(p, RpcError)
    /\ wait' = [wait EXCEPT ![p] = 0]
    /\ UNCHANGED <<store, chain, locks, tx>>
    /\ UNCHANGED aside

\* the worker dies inside the call: nothing of lines 390-501 runs any more
Crash(p) ==
    /\ Active(p)
    /\ pc' = [pc EXCEPT ![p] = "idle"]
    /\ Reset(p)
    /\ UNCHANGED <<store, chain, locks>>
    /\ UNCHANGED <<others, token_transactions>>

\* ------------------------------------------- cancel_queued_transaction ---
\* lines 529-545: the row of that hash is fetched, its status and the signer
\* are checked, and the transition to error is dispatched
cancel_queued_transaction(tx_hash, signer) ==
    /\ \E i \in {j \in RowIds : /\ Hash(rows[j]) = tx_hash
                                /\ (rows[j].status # "error" \/ rows[j].status = "new")} :
         /\ rows[i].status \in {"queued", "new"}
         /\ signer = rows[i].from_address
         /\ [transaction_id |-> i, status |-> "error"] \notin updates
         /\ update_transaction(i, "error")
    /\ UNCHANGED <<rows, triggers, chain, locks, pc, locals, result, wait>>
    /\ UNCHANGED aside

\* cancel_queued_transaction step by step: the fetch of line 530 is awaited,
\* everything after it runs without suspension
Signers == Senders \cup {"z"}
MalformedHash == <<>>
UnknownHash == <<"a", 0, 0, 0, 0>>
MalformedSignature == [signer |-> "none", message |-> <<>>]
NoRowTx == [transaction_id |-> 0, status |-> "none", from_address |-> "none"]
NoCall == [pc |-> "idle", tx_hash |-> MalformedHash, signature |-> MalformedSignature,
           tx |-> NoRowTx, result |-> NoResult]

InvalidTransactionHash == [id |-> "invalid_transaction_hash", message |-> "Invalid Transaction Hash"]
InvalidCancelSignature == [id |-> "invalid_signature", message |-> "Invalid Signature"]
NotFound == [id |-> "not_found", message |-> "Transaction not found"]
InvalidTransactionStatus ==
    [id |-> "invalid_transaction_status", message |-> "Transaction already sent to node"]
PermissionDenied == [id |-> "permission_denied", message |-> "Permission Denied"]
Cancelled == [id |-> "ok", message |-> "None"]

validate_transaction_hash(tx_hash) == Len(tx_hash) = 5
validate_signature(signature) == signature # MalformedSignature

\* line 539
CancelMessage(tx_hash) == <<"Cancel transaction ", tx_hash>>

\* a signature is the signer's over one message
CancelSignatures(hashes) ==
    {MalformedSignature} \cup [signer : Signers, message : {CancelMessage(h) : h \in hashes}]

personal_ecrecover(message, signature, address) ==
    signature.signer = address /\ signature.message = message

\* line 530: the rows the SELECT may return
CancelCandidates(tx_hash) ==
    {j \in RowIds : /\ Hash(rows[j]) = tx_hash
                    /\ (rows[j].status # "error" \/ rows[j].status = "new")}

Fetched(i) ==
    IF i = 0 THEN NoRowTx
    ELSE [transaction_id |-> i, status |-> rows[i].status,
          from_address |-> rows[i].from_address]

\* variant of lines 532-542 that checks the signer before the status
CancelOutcome_SignerFirst(t, tx_hash, signature) ==
    IF t.transaction_id = 0 THEN NotFound
    ELSE IF ~personal_ecrecover(CancelMessage(tx_hash), signature, t.from_address)
    THEN PermissionDenied
    ELSE IF t.status # "queued" /\ t.status # "new" THEN InvalidTransactionStatus
    ELSE NoResult

\* lines 532-542: the checks on the fetched row
CancelOutcome(t, tx_hash, signature) ==
    IF t.transaction_id = 0 THEN NotFound
    ELSE IF t.status # "queued" /\ t.status # "new" THEN InvalidTransactionStatus
    ELSE IF ~personal_ecrecover(CancelMessage(tx_hash), signature, t.from_address)
    THEN PermissionDenied
    ELSE NoResult

\* lines 523-531
CancelFetch(tx_hash, signature) ==
    /\ cancel.pc = "idle"
    /\ IF ~validate_transaction_hash(tx_hash)
       THEN cancel' = [NoCall EXCEPT !.pc = "done", !.result = InvalidTransactionHash]
       ELSE IF ~validate_signature(signature)
       THEN cancel' = [NoCall EXCEPT !.pc = "done", !.result = InvalidCancelSignature]
       ELSE \E i \in (IF CancelCandidates(tx_hash) = {} THEN {0}
                      ELSE CancelCandidates(tx_hash)) :
              cancel' = [pc |-> "fetched", tx_hash |-> tx_hash, signature |-> signature,
                         tx |-> Fetched(i), result |-> NoResult]
    /\ UNCHANGED <<store, submission, tokenv, queries>>

\* lines 532-545
CancelDecide ==
    /\ cancel.pc = "fetched"
    /\ LET err == CancelOutcome(cancel.tx, cancel.tx_hash, cancel.signature)
       IN IF err # NoResult
          THEN /\ cancel' = [NoCall EXCEPT !.pc = "done", !.result = err]
               /\ UNCHANGED updates
          ELSE /\ update_transaction(cancel.tx.transaction_id, "error")
               /\ cancel' = [NoCall EXCEPT !.pc = "done", !.result = Cancelled]
    /\ UNCHANGED <<rows, submission, tokenv, queries>>

CancelReturn ==
    /\ cancel.pc = "done"
    /\ cancel' = NoCall
    /\ UNCHANGED <<store, submission, tokenv, queries>>

\* ------------------------------------------------ update_token_cache ---
Workers == {"u1", "u2"}
Addresses == {"a", "b"}
Wildcard == "*"
Pairs == {Tokens[k] : k \in 1..Len(Tokens)} \X Addresses
Results == {HexWord(n) : n \in 0..MaxBalance} \cup {Empty, Failed, Undecodable}

\* a row of token_balances: balance is the column jsonrpc.py reads and
\* add_token writes, value the column update_token_cache writes
NoRow == [balance |-> Empty, value |-> Empty, visibility |-> -1]
Present(row) == row.visibility # -1

IdleWorker == [pc |-> "idle", contract_address |-> "", eth_addresses |-> <<>>,
               futures |-> <<>>, start_time |-> 0, result |-> "none"]

Finished(how) == [IdleWorker EXCEPT !.pc = "done", !.result = how]

\* line 25
IsWildcard(w) == upd[w].contract_address = Wildcard

\* lines 27-31
TokensOf(contract_address) ==
    IF contract_address = Wildcard THEN Tokens ELSE <<contract_address>>

\* lines 49-53: the calls of the batch, address by address, token by token
BatchCalls(contract_address, eth_addresses) ==
    [k \in 1..(Len(eth_addresses) * Len(TokensOf(contract_address))) |->
        LET n == Len(TokensOf(contract_address))
        IN <<TokensOf(contract_address)[((k - 1) % n) + 1],
             eth_addresses[((k - 1) \div n) + 1]>>]

\* lines 62-68: the balance a result stands for
Decode(value) ==
    IF value = ZeroWord \/ value = Empty THEN 0 ELSE parse_int(value)

\* lines 61-74: f.result() raises, or parse_int hands back None and the
\* comparison of line 69 raises; the except clause logs and goes on
Skipped(f) == f[3] = Failed \/ Decode(f[3]) = None

\* variant of lines 69-74 whose except clause lists the pair for deletion
KeepDelete_Unanswered(f) == Skipped(f) \/ ~(Decode(f[3]) > 0)

\* lines 58-74
KeepInsert(f) == ~Skipped(f) /\ Decode(f[3]) > 0
KeepDelete(f) == ~Skipped(f) /\ ~(Decode(f[3]) > 0)
bulk_insert(futures) ==
    LET kept == SelectSeq(futures, KeepInsert)
    IN [k \in 1..Len(kept) |-> <<kept[k][1], kept[k][2], Hex(Decode(kept[k][3]))>>]
\* variant of lines 69-72 that lists every pair that answered for deletion
KeepAnswered(f) == ~Skipped(f)
bulk_delete_Answered(futures) ==
    LET kept == SelectSeq(futures, KeepAnswered)
    IN [k \in 1..Len(kept) |-> <<kept[k][1], kept[k][2]>>]

bulk_delete(futures) ==
    LET kept == SelectSeq(futures, KeepDelete)
    IN [k \in 1..Len(kept) |-> <<kept[k][1], kept[k][2]>>]

\* variant of lines 80-85 whose conflict clause adds to the stored value
Upsert_Adds(tb, args) ==
    [pr \in Pairs |->
        LET hits == {k \in 1..Len(args) : <<args[k][1], args[k][2]>> = pr}
        IN IF hits = {} THEN tb[pr]
           ELSE LET last == CHOOSE k \in hits : \A j \in hits : j <= k
                IN IF Present(tb[pr])
                   THEN [tb[pr] EXCEPT !.value = Hex(tb[pr].value.hex + args[last][3].hex)]
                   ELSE [balance |-> Absent, value |-> args[last][3], visibility |-> Auto]]

\* lines 80-85: INSERT ... ON CONFLICT DO UPDATE set value, statement by statement
Upsert(tb, args) ==
    [pr \in Pairs |->
        LET hits == {k \in 1..Len(args) : <<args[k][1], args[k][2]>> = pr}
        IN IF hits = {} THEN tb[pr]
           ELSE LET last == CHOOSE k \in hits : \A j \in hits : j <= k
                IN IF Present(tb[pr])
                   THEN [tb[pr] EXCEPT !.value = args[last][3]]
                   ELSE [balance |-> Absent, value |-> args[last][3], visibility |-> Auto]]

\* lines 88-90: DELETE ... WHERE contract_address = $1 AND eth_address = $2
Delete(tb, args) ==
    [pr \in Pairs |->
        IF \E k \in 1..Len(args) : args[k] = pr THEN NoRow ELSE tb[pr]]

\* lines 78-93: the transaction of one pass
Materialize(tb, futures) ==
    Delete(Upsert(tb, bulk_insert(futures)), bulk_delete(futures))

\* what executemany hands back for the DELETE: whether a row was deleted
DeleteStatus(tb, args) ==
    IF \E k \in 1..Len(args) : Present(tb[args[k]]) THEN "DELETE 1" ELSE "DELETE 0"

\* lines 76-92
send_update(futures, rval) ==
    \/ Len(bulk_insert(futures)) > 0
    \/ Len(bulk_delete(futures)) > 0 /\ rval # "DELETE 0"

Sent == LET RECURSIVE Sum(_)
            Sum(S) == IF S = {} THEN 0
                      ELSE LET a == CHOOSE x \in S : TRUE
                           IN notifications[a] + Sum(S \ {a})
        IN Sum(Addresses)

\* variant of lines 20-36 without the check of line 34
UStart_AnyNumber(w, contract_address, eth_addresses) ==
    /\ upd[w].pc = "idle"
    /\ Sent < MaxNotifications
    /\ upd' = [upd EXCEPT ![w] =
                 IF Len(eth_addresses) = 0 THEN Finished("returned")
                 ELSE [IdleWorker EXCEPT
                         !.pc = IF contract_address = Wildcard THEN "cooldown" ELSE "execute",
                         !.contract_address = contract_address,
                         !.eth_addresses = eth_addresses]]
    /\ UNCHANGED <<store, submission, cancel, queries, token_balances, cooldown, notifications>>

\* lines 20-36
UStart(w, contract_address, eth_addresses) ==
    /\ upd[w].pc = "idle"
    /\ Sent < MaxNotifications
    /\ upd' = [upd EXCEPT ![w] =
                 IF Len(eth_addresses) = 0 THEN Finished("returned")
                 ELSE IF contract_address = Wildcard /\ Len(eth_addresses) > 1
                 THEN [Finished("raised") EXCEPT !.contract_address = contract_address,
                                                 !.eth_addresses = eth_addresses]
                 ELSE [IdleWorker EXCEPT
                         !.pc = IF contract_address = Wildcard THEN "cooldown" ELSE "execute",
                         !.contract_address = contract_address,
                         !.eth_addresses = eth_addresses]]
    /\ UNCHANGED <<store, submission, cancel, queries, token_balances, cooldown, notifications>>

\* variant of lines 41-45 that sets the key and runs whether or not it was set
UCooldown_AlwaysRuns(w) ==
    /\ upd[w].pc = "cooldown"
    /\ cooldown' = [cooldown EXCEPT ![upd[w].eth_addresses[1]] =
                       [held |-> TRUE, ttl |-> CooldownTTL]]
    /\ upd' = [upd EXCEPT ![w].pc = "execute"]
    /\ UNCHANGED <<store, submission, cancel, queries, token_balances, notifications>>

\* lines 37-45
UCooldown(w) ==
    /\ upd[w].pc = "cooldown"
    /\ LET address == upd[w].eth_addresses[1]
       IN IF cooldown[address].held
          THEN /\ upd' = [upd EXCEPT ![w] = Finished("skipped")]
               /\ UNCHANGED cooldown
          ELSE /\ cooldown' = [cooldown EXCEPT ![address] = [held |-> TRUE, ttl |-> CooldownTTL]]
               /\ upd' = [upd EXCEPT ![w].pc = "execute"]
    /\ UNCHANGED <<store, submission, cancel, queries, token_balances, notifications>>

\* lines 47-74: the batch comes back with one result per call
UExecute(w) ==
    /\ upd[w].pc = "execute"
    /\ LET calls == BatchCalls(upd[w].contract_address, upd[w].eth_addresses)
       IN \E values \in [1..Len(calls) -> Results] :
            upd' = [upd EXCEPT ![w].pc = "write",
                               ![w].futures = [k \in 1..Len(calls) |->
                                                 <<calls[k][1], calls[k][2], values[k]>>]]
    /\ UNCHANGED <<store, submission, cancel, queries, token_balances, cooldown, notifications>>

\* variant of line 56 whose failure removes the key of line 41
UExecuteFail_ClearsKey(w) ==
    /\ upd[w].pc = "execute"
    /\ upd' = [upd EXCEPT ![w] = Finished("raised")]
    /\ cooldown' = IF IsWildcard(w)
                   THEN [cooldown EXCEPT ![upd[w].eth_addresses[1]] = [held |-> FALSE, ttl |-> 0]]
                   ELSE cooldown
    /\ UNCHANGED <<store, submission, cancel, queries, token_balances, notifications>>

\* line 56: client.execute() raises
UExecuteFail(w) ==
    /\ upd[w].pc = "execute"
    /\ upd' = [upd EXCEPT ![w] = Finished("raised")]
    /\ UNCHANGED <<store, submission, cancel, queries, token_balances, cooldown, notifications>>

\* lines 76-112
UWrite(w) ==
    /\ upd[w].pc = "write"
    /\ LET futures == upd[w].futures
           inserted == Upsert(token_balances, bulk_insert(futures))
       IN /\ token_balances' = Materialize(token_balances, futures)
          /\ LET rval == DeleteStatus(inserted, bulk_delete(futures))
             IN notifications' =
                   IF IsWildcard(w) /\ send_update(futures, rval)
                   THEN [notifications EXCEPT ![upd[w].eth_addresses[1]] = @ + 1]
                   ELSE notifications
    /\ upd' = [upd EXCEPT ![w] = Finished("returned")]
    /\ UNCHANGED <<store, submission, cancel, queries, cooldown>>

\* lines 78-93: a statement or the commit raises; leaving the block of line 78
\* by exception rolls the transaction back, and the handler ends at line 19
UWriteFail(w) ==
    /\ upd[w].pc = "write"
    /\ Len(bulk_insert(upd[w].futures)) > 0 \/ Len(bulk_delete(upd[w].futures)) > 0
    /\ upd' = [upd EXCEPT ![w] = Finished("raised")]
    /\ UNCHANGED <<store, submission, cancel, queries, token_balances, cooldown, notifications>>

UReturn(w) ==
    /\ upd[w].pc = "done"
    /\ upd' = [upd EXCEPT ![w] = IdleWorker]
    /\ UNCHANGED <<store, submission, cancel, queries, token_balances, cooldown, notifications>>

\* RefreshTick seconds pass: cooldown keys run down and expire, running
\* wildcard passes grow older
CooldownTick ==
    /\ \/ \E a \in Addresses : cooldown[a].held
       \/ \E w \in Workers : /\ upd[w].pc \in {"execute", "write"}
                             /\ upd[w].start_time < CooldownTTL
    /\ cooldown' = [a \in Addresses |->
                      IF cooldown[a].held /\ cooldown[a].ttl - RefreshTick > 0
                      THEN [cooldown[a] EXCEPT !.ttl = @ - RefreshTick]
                      ELSE [held |-> FALSE, ttl |-> 0]]
    /\ upd' = [w \in Workers |->
                 IF upd[w].pc \in {"execute", "write"} /\ upd[w].start_time < CooldownTTL
                 THEN [upd[w] EXCEPT !.start_time = @ + RefreshTick]
                 ELSE upd[w]]
    /\ UNCHANGED <<store, submission, cancel, queries, token_balances, notifications>>

\* jsonrpc.py lines 769-796; token_balance is token['balance'] when the token
\* carries one
add_token(user_toshi_id, contract_address, has_balance, token_balance) ==
    /\ LET balance == IF has_balance THEN token_balance ELSE Hex(0)
       IN token_balances' = [token_balances EXCEPT ![<<contract_address, user_toshi_id>>] =
                               [balance |-> balance,
                                value |-> IF Present(@) THEN @.value ELSE Absent,
                                visibility |-> Manual]]
    /\ UNCHANGED <<store, submission, cancel, queries, cooldown, notifications, upd>>

\* jsonrpc.py lines 798-811
remove_token(user_toshi_id, contract_address) ==
    /\ token_balances' = [pr \in Pairs |->
                            IF pr = <<contract_address, user_toshi_id>> /\ Present(token_balances[pr])
                            THEN [token_balances[pr] EXCEPT !.visibility = Hidden]
                            ELSE token_balances[pr]]
    /\ UNCHANGED <<store, submission, cancel, queries, cooldown, notifications, upd>>

\* ---------------------------------------- create_transaction_skeleton ---
MaxWord == [hex |-> 0, width |-> -4]        \* the string "max"

Recipients == {"b", "k"}
Contracts == {"k"}                          \* addresses eth_getCode finds code at

\* data as the intrinsic gas sees it: how many zero and nonzero bytes
NoData == [zero |-> 0, nonzero |-> 0]
Payload == [zero |-> 1, nonzero |-> 1]
data_decoder(data) == IF data = "bytes" THEN Payload ELSE NoData

\* line 234: selector, padded recipient and the value as a 32-byte word
TransferData(value) ==
    LET digits == IF value > 0 THEN 1 ELSE 0
    IN [zero |-> 12 + 32 - digits, nonzero |-> 4 + 20 + digits]

\* what the node may answer to eth_estimateGas; None stands for its error
Estimates == {IntrinsicGas, 2 * IntrinsicGas}
\* the key gas_station_fast_gas_price, and what eth_gasPrice answers
GasStationPrices == {Absent, Hex(3), Undecodable}
NodeGasPrices == {None, 4}
\* config['ethereum'].getint('default_gasprice', DEFAULT_GASPRICE)
DefaultGasPrice == 5

JsonRPCInvalidParamsError(id, message) == [id |-> id, message |-> message]
Ok == [id |-> "ok", message |-> ""]
CannotSend == [id |-> "invalid_to_address", message |-> "Cannot send payments to that address"]
InvalidTransaction == [id |-> "invalid_transaction", message |-> "str(e)"]

NoArgs == [value |-> Absent, nonce |-> Absent, gas |-> Absent, gas_price |-> Absent,
           data |-> "none", token_address |-> "none"]
NoResponse == [gas |-> Absent, gas_price |-> Absent, nonce |-> Absent, value |-> Absent]

IdleSkeleton ==
    [pc |-> "idle", from_address |-> "", to_address |-> "", args |-> NoArgs,
     gas_price |-> None, gas |-> None, nonce |-> None, value |-> 0, token_value |-> 0,
     data |-> NoData, balance |-> 0, attempts |-> 0, gas_with_value |-> None,
     whitelisted |-> FALSE, gas_station_gas_price |-> Absent, eth_gasPrice |-> None,
     result |-> NoResult, response |-> NoResponse]

SkFail(err) == [skel EXCEPT !.pc = "done", !.result = err]

validate_address(address) == address # "invalid"
MixedCase(address) == address = "badsum"
checksum_validate_address(address) == address # "badsum"

\* lines 127-155
CheckArguments(from_address, to_address, network_id) ==
    IF ~validate_address(from_address) THEN JsonRPCInvalidParamsError("invalid_from_address", "Invalid From Address")
    ELSE IF ~validate_address(to_address) THEN JsonRPCInvalidParamsError("invalid_to_address", "Invalid To Address")
    ELSE IF MixedCase(from_address) /\ ~checksum_validate_address(from_address)
    THEN JsonRPCInvalidParamsError("invalid_from_address", "Invalid From Address Checksum")
    ELSE IF MixedCase(to_address) /\ ~checksum_validate_address(to_address)
    THEN JsonRPCInvalidParamsError("invalid_to_address", "Invalid To Address Checksum")
    ELSE IF network_id = "malformed" THEN JsonRPCInvalidParamsError("invalid_network_id", "Invalid Network Id")
    ELSE IF network_id \notin {"none", "configured"} THEN JsonRPCInvalidParamsError("invalid_network_id", "Network ID does not match")
    ELSE NoResult

\* lines 117-155
SkStart(from_address, to_address, value, nonce, gas, gas_price, data, network_id, token_address) ==
    /\ skel.pc = "idle"
    /\ LET err == CheckArguments(from_address, to_address, network_id)
       IN skel' = IF err # NoResult
                  THEN [IdleSkeleton EXCEPT !.pc = "done", !.result = err]
                  ELSE [IdleSkeleton EXCEPT
                          !.pc = "gas_price",
                          !.from_address = from_address,
                          !.to_address = to_address,
                          !.args = [value |-> value, nonce |-> nonce, gas |-> gas,
                                    gas_price |-> gas_price, data |-> data,
                                    token_address |-> token_address]]
    /\ UNCHANGED <<store, submission, cancel, tokenv, token_registrations, refreshes, gtb>>

\* variant of lines 162-168 that keeps the given price whatever the lists say
Honoured_Always(gas_price, nonce, whitelisted) == gas_price

\* lines 162-168: the given price is dropped unless a nonce came with it or
\* one of the two lists has the address
Honoured(gas_price, nonce, whitelisted) ==
    IF gas_price # Absent /\ nonce = Absent /\ ~whitelisted THEN Absent ELSE gas_price

\* lines 170-182; None where line 182 raises
ResolveGasPrice(gas_price, cached, node) ==
    IF gas_price = Absent
    THEN LET fast == IF cached # Absent THEN parse_int(cached) ELSE None
         IN IF fast # None THEN fast
            ELSE IF node # None THEN node
            ELSE DefaultGasPrice
    ELSE parse_int(gas_price)

\* lines 157-182
SkGasPrice ==
    /\ skel.pc = "gas_price"
    /\ \E from_listed \in BOOLEAN, to_listed \in BOOLEAN,
          cached \in GasStationPrices, node \in NodeGasPrices :
         LET asked == skel.args.gas_price # Absent /\ skel.args.nonce = Absent
             whitelisted == asked /\ (from_listed \/ to_listed)
             given == Honoured(skel.args.gas_price, skel.args.nonce, whitelisted)
             fast == IF given = Absent THEN cached ELSE Absent
             live == IF given = Absent /\ (fast = Absent \/ parse_int(fast) = None)
                     THEN node ELSE None
             gas_price == ResolveGasPrice(given, fast, live)
         IN skel' = IF gas_price = None
                    THEN SkFail(JsonRPCInvalidParamsError("invalid_gas_price", "Invalid Gas Price"))
                    ELSE [skel EXCEPT !.pc = "nonce",
                                      !.gas_price = gas_price,
                                      !.whitelisted = whitelisted,
                                      !.gas_station_gas_price = fast,
                                      !.eth_gasPrice = live]
    /\ UNCHANGED <<store, submission, cancel, tokenv, token_registrations, refreshes, gtb>>

\* variant of lines 90-114 that counts every row of the address
get_transaction_count_AnyStatus(address) ==
    LET nonces == {rows[i].nonce : i \in {j \in RowIds : rows[j].from_address = address}}
    IN IF nonces # {}
       THEN Max(nwNonce[address], (CHOOSE n \in nonces : \A m \in nonces : m <= n) + 1)
       ELSE nwNonce[address]

\* lines 90-114
\* variant that answers with the count of the network alone
get_transaction_count_NetworkOnly(address) == nwNonce[address]

get_transaction_count(address) == NextNonce(address, nwNonce[address])

\* lines 184-195; the lookups of the gas price step are no longer needed
SkNonce ==
    /\ skel.pc = "nonce"
    /\ LET gas == IF skel.args.gas # Absent THEN parse_int(skel.args.gas) ELSE None
           nonce == IF skel.args.nonce = Absent
                    THEN get_transaction_count(skel.from_address)
                    ELSE parse_int(skel.args.nonce)
       IN skel' = IF skel.args.gas # Absent /\ gas = None THEN SkFail(JsonRPCInvalidParamsError("invalid_gas", "Invalid Gas"))
                  ELSE IF nonce = None THEN SkFail(JsonRPCInvalidParamsError("invalid_nonce", "Invalid Nonce"))
                  ELSE [skel EXCEPT !.pc = "value", !.gas = gas, !.nonce = nonce,
                                    !.whitelisted = FALSE,
                                    !.gas_station_gas_price = Absent,
                                    !.eth_gasPrice = None]
    /\ UNCHANGED <<store, submission, cancel, tokenv, token_registrations, refreshes, gtb>>

AfterValue(gas) == IF gas = None THEN "gas" ELSE "build"

\* lines 211-237: the arguments of a token transfer; answer is what balanceOf
\* returns when the table has no row
TokenTransfer(answer) ==
    LET token_address == skel.args.token_address
        row == token_balances[<<token_address, skel.from_address>>]
        raw == IF skel.args.value = MaxWord
               THEN IF Present(row) /\ row.balance # Absent THEN row.balance ELSE answer
               ELSE skel.args.value
        value == IF raw = Absent THEN 0 ELSE parse_int(raw)
    IN IF value = None \/ value < 0 THEN SkFail(JsonRPCInvalidParamsError("invalid_value", "Invalid Value"))
       ELSE [skel EXCEPT !.pc = AfterValue(skel.gas),
                         !.data = TransferData(value),
                         !.token_value = value,
                         !.value = 0,
                         !.to_address = token_address]

\* lines 241-280: value "max"
MaxValue ==
    LET balance == get_balances(skel.from_address)
    IN IF skel.gas = None
       THEN IF skel.to_address \in Contracts
            THEN [skel EXCEPT !.pc = "estimate", !.balance = balance,
                              !.data = data_decoder(skel.args.data)]
            ELSE [skel EXCEPT !.pc = "build", !.balance = balance,
                              !.data = data_decoder(skel.args.data),
                              !.gas = IntrinsicGas,
                              !.value = balance - (skel.gas_price * IntrinsicGas)]
       ELSE [skel EXCEPT !.pc = "build", !.balance = balance,
                         !.data = data_decoder(skel.args.data),
                         !.value = balance - (skel.gas_price * skel.gas)]

\* lines 197-284
SkValue ==
    /\ skel.pc = "value"
    /\ \E answer \in {HexWord(1), Failed} :
         skel' =
           IF skel.args.data = "invalid" THEN SkFail(JsonRPCInvalidParamsError("invalid_data", "Invalid Data field"))
           ELSE IF skel.args.token_address # "none"
           THEN IF ~validate_address(skel.args.token_address)
                THEN SkFail(JsonRPCInvalidParamsError("invalid_token_address", "Invalid Token Address"))
                ELSE IF data_decoder(skel.args.data) # NoData THEN SkFail(JsonRPCInvalidParamsError("bad_arguments", "Cannot include both data and token_address"))
                ELSE TokenTransfer(answer)
           ELSE IF skel.args.value = Absent
           THEN [skel EXCEPT !.pc = AfterValue(skel.gas), !.value = 0,
                             !.data = data_decoder(skel.args.data)]
           ELSE IF skel.args.value = MaxWord THEN MaxValue
           ELSE IF parse_int(skel.args.value) = None \/ parse_int(skel.args.value) < 0
           THEN SkFail(JsonRPCInvalidParamsError("invalid_value", "Invalid Value"))
           ELSE [skel EXCEPT !.pc = AfterValue(skel.gas),
                             !.value = parse_int(skel.args.value),
                             !.data = data_decoder(skel.args.data)]
    /\ UNCHANGED <<store, submission, cancel, tokenv, token_registrations, refreshes, gtb>>

\* lines 244-252: the estimate for the contract at value 0
SkEstimate ==
    /\ skel.pc = "estimate"
    /\ \E answer \in Estimates \cup {None} :
         skel' = IF answer = None THEN SkFail(CannotSend)
                 ELSE [skel EXCEPT !.pc = "loop", !.gas = answer, !.attempts = 0]
    /\ UNCHANGED <<store, submission, cancel, tokenv, token_registrations, refreshes, gtb>>

\* variant of line 256 that gives up one attempt later
Exhausted_Late(attempts) == attempts > 3

\* line 256
Exhausted(attempts) == attempts > 2

\* lines 255-273: one turn of the loop
SkLoop ==
    /\ skel.pc = "loop"
    /\ LET value == skel.balance - (skel.gas_price * skel.gas)
       IN \E gas_with_value \in Estimates \cup {None} :
            skel' = IF Exhausted(skel.attempts) THEN SkFail(CannotSend)
                    ELSE IF value < 0
                    THEN [SkFail(InsufficientFunds) EXCEPT !.value = value]
                    ELSE IF gas_with_value = None
                    THEN [SkFail(CannotSend) EXCEPT !.value = value,
                                                    !.gas_with_value = None]
                    ELSE IF gas_with_value # skel.gas
                    THEN [skel EXCEPT !.value = value, !.gas = gas_with_value,
                                      !.gas_with_value = gas_with_value,
                                      !.attempts = @ + 1]
                    ELSE [skel EXCEPT !.pc = "build", !.value = value,
                                      !.gas_with_value = gas_with_value]
    /\ UNCHANGED <<store, submission, cancel, tokenv, token_registrations, refreshes, gtb>>

\* line 309: int(gas * 1.2)
Buffered(gas) == (gas * 12) \div 10

\* lines 286-309
SkGas ==
    /\ skel.pc = "gas"
    /\ \E answer \in Estimates \cup {None} :
         skel' =
           IF answer = None
           THEN LET bal == IF skel.args.token_address # "none"
                           THEN token_balances[<<skel.args.token_address, skel.from_address>>]
                           ELSE NoRow
                IN IF Present(bal) /\ bal.balance # Absent /\ parse_int(bal.balance) < skel.token_value
                   THEN SkFail(InsufficientFunds)
                   ELSE SkFail(JsonRPCInvalidParamsError("invalid_data", "Unable to estimate gas for contract call"))
           ELSE [skel EXCEPT !.pc = "build",
                             !.gas = IF skel.data # NoData THEN Buffered(answer) ELSE answer]
    /\ UNCHANGED <<store, submission, cancel, tokenv, token_registrations, refreshes, gtb>>

\* variant of lines 323-327 without the check
MinimalGas_Unchecked(data, gas) == NoResult

\* lines 323-327
MinimalGas(data, gas) == IF intrinsic_gas_used(data) > gas THEN GasTooLow ELSE NoResult

\* lines 329-332
Response ==
    [gas |-> Hex(skel.gas), gas_price |-> Hex(skel.gas_price), nonce |-> Hex(skel.nonce),
     value |-> IF skel.args.token_address # "none" THEN Hex(skel.token_value)
               ELSE Hex(skel.value)]

\* lines 311-332. What the transaction library makes of a negative value is
\* not decided in this file: create_transaction may refuse it as an
\* InvalidTransaction (line 315), encode_transaction may fail on it (line 329,
\* outside every try), or the skeleton is returned with it
SkBuild ==
    /\ skel.pc = "build"
    /\ \/ /\ skel.value < 0
          /\ skel' = SkFail(InvalidTransaction)
       \/ /\ skel.value < 0
          /\ MinimalGas(skel.data, skel.gas) = NoResult
          /\ skel' = SkFail(Uncaught)
       \/ skel' = IF MinimalGas(skel.data, skel.gas) # NoResult
                  THEN SkFail(MinimalGas(skel.data, skel.gas))
                  ELSE [skel EXCEPT !.pc = "done", !.result = Ok, !.response = Response]
    /\ UNCHANGED <<store, submission, cancel, tokenv, token_registrations, refreshes, gtb>>

\* the caller has the skeleton or the error
SkReturn ==
    /\ skel.pc = "done"
    /\ skel' = IdleSkeleton
    /\ UNCHANGED <<store, submission, cancel, tokenv, token_registrations, refreshes, gtb>>

create_transaction_skeleton ==
    \/ SkGasPrice
    \/ SkNonce
    \/ SkValue
    \/ SkEstimate
    \/ SkLoop
    \/ SkGas
    \/ SkBuild
    \/ SkReturn

\* ------------------------------------------------- get_token_balances ---
Callers == {"q1", "q2"}


IdleQuery == [pc |-> "idle", eth_address |-> "", token_address |-> "none",
              force_update |-> FALSE, registered |-> FALSE,
              result |-> NoResult, tokens |-> {}]

\* lines 548-551
GStart(c, eth_address, token_address, force_update) ==
    /\ gtb[c].pc = "idle"
    /\ eth_address \in Addresses => refreshes[eth_address] < MaxRefreshes
    /\ gtb' = [gtb EXCEPT ![c] =
                 IF ~validate_address(eth_address)
                 THEN [IdleQuery EXCEPT !.pc = "done", !.result = JsonRPCInvalidParamsError("invalid_address", "Invalid Address")]
                 ELSE IF token_address # "none" /\ ~validate_address(token_address)
                 THEN [IdleQuery EXCEPT !.pc = "done", !.result = JsonRPCInvalidParamsError("invalid_token_address", "Invalid Token Address")]
                 ELSE [IdleQuery EXCEPT !.pc = "update",
                                        !.eth_address = eth_address,
                                        !.token_address = token_address,
                                        !.force_update = force_update]]
    /\ UNCHANGED <<store, submission, cancel, tokenv, skel, token_registrations, refreshes>>

\* variant of line 559 that asks for a refresh on every call
ShouldRefresh_Always(registered, force_update) == TRUE

\* line 559
ShouldRefresh(registered, force_update) == ~registered \/ force_update

\* lines 554-560: the UPDATE tells whether the address has its row; without
\* one, or when forced, the wildcard refresh is dispatched
GUpdate(c) ==
    /\ gtb[c].pc = "update"
    /\ LET registered == gtb[c].eth_address \in token_registrations
       IN IF ShouldRefresh(registered, gtb[c].force_update)
          THEN /\ refreshes' = [refreshes EXCEPT ![gtb[c].eth_address] = @ + 1]
               /\ gtb' = [gtb EXCEPT ![c].pc = "insert", ![c].registered = registered]
          ELSE /\ gtb' = [gtb EXCEPT ![c].pc = "read", ![c].registered = registered]
               /\ UNCHANGED refreshes
    /\ UNCHANGED <<store, submission, cancel, tokenv, skel, token_registrations>>

\* lines 561-563: INSERT ... ON CONFLICT (eth_address) DO NOTHING
GInsert(c) ==
    /\ gtb[c].pc = "insert"
    /\ token_registrations' = token_registrations \cup {gtb[c].eth_address}
    /\ gtb' = [gtb EXCEPT ![c].pc = "read"]
    /\ UNCHANGED <<store, submission, cancel, tokenv, skel, refreshes>>

\* lines 610-620: the rows the list shows
Visible(row) ==
    \/ row.visibility = Manual
    \/ row.visibility = Auto /\ row.balance # Absent /\ row.balance # Hex(0)

\* lines 565-642: the balance of one token, or the visible rows of the address
GRead(c) ==
    /\ gtb[c].pc = "read"
    /\ LET eth_address == gtb[c].eth_address
           token_address == gtb[c].token_address
           listed == {k \in 1..Len(Tokens) : Tokens[k] = token_address}
           one == IF listed = {} THEN {}
                  ELSE LET row == token_balances[<<token_address, eth_address>>]
                       IN {<<token_address, IF Present(row) /\ row.balance # Absent
                                            THEN row.balance ELSE Hex(0)>>}
           all == {<<Tokens[k], token_balances[<<Tokens[k], eth_address>>].balance>> :
                     k \in {j \in 1..Len(Tokens) :
                              /\ Present(token_balances[<<Tokens[j], eth_address>>])
                              /\ Visible(token_balances[<<Tokens[j], eth_address>>])}}
       IN gtb' = [gtb EXCEPT ![c].pc = "done", ![c].result = Ok,
                             ![c].tokens = IF token_address # "none" THEN one ELSE all]
    /\ UNCHANGED <<store, submission, cancel, tokenv, skel, token_registrations, refreshes>>

\* the caller has its answer
GReturn(c) ==
    /\ gtb[c].pc = "done"
    /\ gtb' = [gtb EXCEPT ![c] = IdleQuery]
    /\ UNCHANGED <<store, submission, cancel, tokenv, skel, token_registrations, refreshes>>

get_token_balances(c) ==
    \/ GUpdate(c)
    \/ GInsert(c)
    \/ GRead(c)
    \/ GReturn(c)

\* -------------------------------------------------- time and the lock ----
\* TickSeconds pass: a pending RPC ages until it is past its timeout, keys
\* set with EX run down and expire
Tick ==
    /\ \/ \E k \in Keys : locks[k].held /\ locks[k].ex
       \/ \E p \in Calls : InRpc(p) /\ wait[p] <= RequestTimeout
    /\ wait' = [p \in Calls |->
                  IF InRpc(p) /\ wait[p] <= RequestTimeout
                  THEN wait[p] + TickSeconds ELSE wait[p]]
    /\ locks' = [k \in Keys |->
                   IF locks[k].held /\ locks[k].ex
                   THEN IF locks[k].ttl - TickSeconds <= 0
                        THEN Free
                        ELSE [locks[k] EXCEPT !.ttl = locks[k].ttl - TickSeconds]
                   ELSE locks[k]]
    /\ UNCHANGED <<store, chain, pc, locals, result>>
    /\ UNCHANGED aside

\* ------------------------------------------ manager and chain monitor ----
\* the manager handles an update_transaction task: a row in a terminal status
\* keeps it, any other row takes the requested status
HandleUpdate(u) ==
    /\ u \in updates
    /\ updates' = updates \ {u}
    /\ rows' = IF rows[u.transaction_id].status \in Terminal
               THEN rows
               ELSE [rows EXCEPT ![u.transaction_id].status = u.status]
    /\ UNCHANGED <<triggers, chain, locks, pc, locals, result, wait>>
    /\ UNCHANGED aside

\* the manager, processing the queue, hands a new row to the node
SendToNode(i) ==
    /\ i \in RowIds
    /\ rows[i].status \in {"new", "queued"}
    /\ rows' = [rows EXCEPT ![i].status = "unconfirmed"]
    /\ UNCHANGED <<updates, triggers, chain, locks, pc, locals, result, wait>>
    /\ UNCHANGED aside

\* the monitor sees the transaction in a block
Confirm(i) ==
    /\ i \in RowIds
    /\ rows[i].status = "unconfirmed"
    /\ rows[i].nonce = nwNonce[rows[i].from_address]
    /\ Cost(rows[i]) <= nwBalance[rows[i].from_address]
    /\ rows' = [rows EXCEPT ![i].status = "confirmed"]
    /\ nwNonce' = [nwNonce EXCEPT ![rows[i].from_address] = @ + 1]
    /\ nwBalance' = [nwBalance EXCEPT ![rows[i].from_address] = @ - Cost(rows[i])]
    /\ UNCHANGED <<updates, triggers, locks, pc, locals, result, wait>>
    /\ UNCHANGED aside

\* the node rejects or drops the transaction
ChainReject(i) ==
    /\ i \in RowIds
    /\ rows[i].status = "unconfirmed"
    /\ rows' = [rows EXCEPT ![i].status = "error"]
    /\ UNCHANGED <<updates, triggers, chain, locks, pc, locals, result, wait>>
    /\ UNCHANGED aside

\* the sender's key signs a transaction elsewhere and the chain includes it
ExternalTx(address) ==
    /\ nwNonce[address] <= MaxNonce
    /\ nwNonce' = [nwNonce EXCEPT ![address] = @ + 1]
    /\ UNCHANGED <<store, nwBalance, locks, pc, locals, result, wait>>
    /\ UNCHANGED aside

\* ----------------------------------------------------- specification -----
Init ==
    /\ rows = <<>>
    /\ locks = [k \in Keys |-> Free]
    /\ updates = {}
    /\ triggers = <<>>
    /\ nwNonce = [a \in Senders |-> 0]
    /\ nwBalance = [a \in Senders |-> InitialBalance]
    /\ pc = [p \in Calls |-> "idle"]
    /\ tx = [p \in Calls |-> NoTx]
    /\ existing = [p \in Calls |-> 0]
    /\ nw_nonce = [p \in Calls |-> 0]
    /\ result = [p \in Calls |-> NoResult]
    /\ wait = [p \in Calls |-> 0]
    /\ cancel = NoCall
    /\ token_balances = [pr \in Pairs |-> NoRow]
    /\ cooldown = [a \in Addresses |-> [held |-> FALSE, ttl |-> 0]]
    /\ notifications = [a \in Addresses |-> 0]
    /\ upd = [w \in Workers |-> IdleWorker]
    /\ skel = IdleSkeleton
    /\ token_registrations = {}
    /\ refreshes = [a \in Addresses |-> 0]
    /\ gtb = [c \in Callers |-> IdleQuery]
    /\ txdata = [p \in Calls |-> NoTxData]
    /\ token_transactions = {}

send_transaction(p) ==
    \/ AcquireLock(p)
    \/ CheckOverwrite(p)
    \/ CheckFunds(p)
    \/ GetNetworkNonce(p)
    \/ CheckNonce(p)
    \/ InsertTx(p)
    \/ Analytics(p)
    \/ AnalyticsFail(p)
    \/ ReleaseLock(p)
    \/ Return(p)
    \/ RpcFail(p)

Environment ==
    \/ \E i \in RowIds, signer \in Senders : cancel_queued_transaction(Hash(rows[i]), signer)
    \/ Tick
    \/ \E u \in updates : HandleUpdate(u)
    \/ \E i \in RowIds : SendToNode(i)
    \/ \E i \in RowIds : Confirm(i)
    \/ \E i \in RowIds : ChainReject(i)

\* concurrent submissions
Next ==
    \/ \E p \in Calls, t \in Txs, wellformed \in BOOLEAN, signed \in BOOLEAN,
          signature \in Signatures, network_id \in NetworkIds :
            Start(p, t, wellformed, signed, signature, network_id)
    \/ \E p \in Calls : send_transaction(p)
    \/ \E p \in Calls : Crash(p)
    \/ Environment

Spec == Init /\ [][Next]_vars

\* one submission at a time, over the whole input range, with the sender's key
\* also used outside the service
SeqNext ==
    \/ \E t \in WideTxs, wellformed \in BOOLEAN, signed \in BOOLEAN,
          signature \in Signatures, network_id \in NetworkIds :
            Start("c1", t, wellformed, signed, signature, network_id)
    \/ send_transaction("c1")
    \/ \E a \in Senders : ExternalTx(a)
    \/ Environment

SeqSpec == Init /\ [][SeqNext]_vars

\* concurrent submissions while time keeps passing
FairSpec == Spec /\ WF_vars(Tick)

\* one submission at a time and cancellations by the sender; the monitor
\* rejects nothing
ResubmitNext ==
    \/ \E t \in Txs : Start("c1", t, TRUE, TRUE, "matching", "none")
    \/ send_transaction("c1")
    \/ \E i \in RowIds, signer \in Senders : cancel_queued_transaction(Hash(rows[i]), signer)
    \/ Tick
    \/ \E u \in updates : HandleUpdate(u)
    \/ \E i \in RowIds : SendToNode(i)
    \/ \E i \in RowIds : Confirm(i)

ResubmitSpec == Init /\ [][ResubmitNext]_vars

\* one submission at a time of plain transactions and of calls of a contract;
\* rows go to error only by an overwrite
LedgerGas == 25000
LedgerTxs == [sender : Senders, nonce : Nonces, gasprice : GasPrices,
              value : {0}, startgas : {IntrinsicGas, LedgerGas}]
Calldata ==
    {NoCalldata, Transfer("b", 1), TransferFrom("a", "b", 1),
     [Transfer("b", 1) EXCEPT !.addresses = <<"a", "b">>],
     [TransferFrom("a", "b", 1) EXCEPT !.addresses = <<"b">>],
     [Transfer("b", 1) EXCEPT !.selector = "0x095ea7b3"]}
LedgerNext ==
    \/ \E t \in LedgerTxs, wellformed \in BOOLEAN, to_address \in {"b", Tokens[1]},
          data \in Calldata :
            Submit("c1", t, wellformed, TRUE, "matching", "none", to_address, data)
    \/ send_transaction("c1")
    \/ InsertFail("c1")
    \/ Crash("c1")
    \/ Tick
    \/ \E u \in updates : HandleUpdate(u)
    \/ \E i \in RowIds : SendToNode(i)
    \/ \E i \in RowIds : Confirm(i)

LedgerSpec == Init /\ [][LedgerNext]_vars

\* no call is in progress and nothing was dispatched
Quiet ==
    /\ locks = [k \in Keys |-> Free]
    /\ updates = {}
    /\ triggers = <<>>
    /\ nwBalance = [a \in Senders |-> InitialBalance]
    /\ pc = [p \in Calls |-> "idle"]
    /\ tx = [p \in Calls |-> NoTx]
    /\ existing = [p \in Calls |-> 0]
    /\ nw_nonce = [p \in Calls |-> 0]
    /\ result = [p \in Calls |-> NoResult]
    /\ wait = [p \in Calls |-> 0]
    /\ cancel = NoCall
    /\ token_balances = [pr \in Pairs |-> NoRow]
    /\ cooldown = [a \in Addresses |-> [held |-> FALSE, ttl |-> 0]]
    /\ notifications = [a \in Addresses |-> 0]
    /\ upd = [w \in Workers |-> IdleWorker]
    /\ skel = IdleSkeleton
    /\ token_registrations = {}
    /\ refreshes = [a \in Addresses |-> 0]
    /\ gtb = [c \in Callers |-> IdleQuery]
    /\ txdata = [p \in Calls |-> NoTxData]
    /\ token_transactions = {}

Idle ==
    /\ nwNonce = [a \in Senders |-> 0]
    /\ Quiet

\* cancellation against the manager and the chain monitor: one or two pending
\* rows of the sender are in the table
CancelTables ==
    {<<[NewRow(t0) EXCEPT !.status = s0]>> :
        t0 \in {t \in Txs : t.nonce = 0 /\ t.gasprice = 1}, s0 \in {"new", "queued"}}
    \cup
    {<<[NewRow(t0) EXCEPT !.status = s0], [NewRow(t1) EXCEPT !.status = s1]>> :
        t0 \in {t \in Txs : t.nonce = 0 /\ t.gasprice = 1},
        t1 \in {t \in Txs : t.nonce = 1 /\ t.gasprice = 1},
        s0 \in {"new", "queued"}, s1 \in {"new", "queued"}}

CancelInit == rows \in CancelTables /\ Idle

CancelHashes == {Hash(rows[i]) : i \in RowIds} \cup {UnknownHash, MalformedHash}

CancelNext ==
    \/ \E tx_hash \in CancelHashes : \E signature \in CancelSignatures(CancelHashes) :
          CancelFetch(tx_hash, signature)
    \/ CancelDecide
    \/ CancelReturn
    \/ \E u \in updates : HandleUpdate(u)
    \/ \E i \in RowIds : SendToNode(i)
    \/ \E i \in RowIds : Confirm(i)

CancelSpec == CancelInit /\ [][CancelNext]_vars

\* one refresh at a time over the whole input range, with tokens added and
\* removed by the user
RefreshAddresses == {<<>>, <<"a">>, <<"a", "b">>}

TokenNext ==
    \/ \E contract_address \in {Wildcard, Tokens[1]}, eth_addresses \in RefreshAddresses :
          UStart("u1", contract_address, eth_addresses)
    \/ UCooldown("u1")
    \/ UExecute("u1")
    \/ UExecuteFail("u1")
    \/ UWrite("u1")
    \/ UReturn("u1")
    \/ CooldownTick
    \/ \E k \in 1..Len(Tokens), has_balance \in BOOLEAN :
          add_token("a", Tokens[k], has_balance, Hex(1))
    \/ \E k \in 1..Len(Tokens) : remove_token("a", Tokens[k])

TokenSpec == Init /\ [][TokenNext]_vars

\* wildcard refreshes of one address, overlapping
StormNext ==
    \/ \E w \in Workers : UStart(w, Wildcard, <<"a">>)
    \/ \E w \in Workers : UCooldown(w)
    \/ \E w \in Workers : UExecute(w)
    \/ \E w \in Workers : UExecuteFail(w)
    \/ \E w \in Workers : UWrite(w)
    \/ \E w \in Workers : UReturn(w)
    \/ CooldownTick

StormSpec == Init /\ [][StormNext]_vars

\* wildcard refreshes of one address, overlapping, whose batch or whose write
\* may fail
WindowNext ==
    \/ StormNext
    \/ \E w \in Workers : UWriteFail(w)

WindowSpec == Init /\ [][WindowNext]_vars

\* one token of one address: refreshes of its balance, the user adding the
\* token, and the two readers of the row
CacheNext ==
    \/ UStart("u1", Tokens[1], <<"a">>)
    \/ UExecute("u1")
    \/ UExecuteFail("u1")
    \/ UWrite("u1")
    \/ UReturn("u1")
    \/ add_token("a", Tokens[1], TRUE, Hex(1))
    \/ GStart("q1", "a", Tokens[1], FALSE)
    \/ get_token_balances("q1")
    \/ SkStart("a", "b", MaxWord, Absent, Absent, Hex(1), "none", "none", Tokens[1])
    \/ SkGasPrice
    \/ SkNonce
    \/ SkValue
    \/ SkGas
    \/ SkBuild
    \/ SkReturn

CacheSpec == Init /\ [][CacheNext]_vars

\* skeletons asked for one at a time, over tables of the sender's earlier
\* transactions in every status
Row(n, s) ==
    [NewRow([sender |-> "a", nonce |-> n, gasprice |-> 1, value |-> 0,
             startgas |-> IntrinsicGas]) EXCEPT !.status = s]

SkeletonTables ==
    {<<>>}
    \cup {<<Row(n, s)>> : n \in Nonces, s \in Statuses}
    \cup {<<Row(0, s0), Row(MaxNonce, s1)>> :
            s0 \in {"confirmed", "new"}, s1 \in {"new", "error", "confirmed"}}

\* a confirmed transaction is counted by the chain
SkeletonInit ==
    /\ rows \in SkeletonTables
    /\ nwNonce \in [Senders -> 0..(MaxNonce + 1)]
    /\ \A i \in RowIds :
         rows[i].status = "confirmed" => nwNonce[rows[i].from_address] > rows[i].nonce
    /\ Quiet

\* well-formed calls: a given value to a plain address and everything to
\* either kind of address, in every combination of the other arguments; then
\* calls with one argument broken or left out
SkeletonCalls ==
    [from_address : {"a"}, to_address : {"b"},
     value : {Hex(1)},
     nonce : {Absent, Hex(MaxNonce)},
     gas : {Absent, Hex(IntrinsicGas - 1), Hex(IntrinsicGas)},
     gas_price : {Absent} \cup {Hex(g) : g \in GasPrices},
     data : {"none", "bytes"},
     network_id : {"none"},
     token_address : {"none", Tokens[1]}]
    \cup
    [from_address : {"a"}, to_address : Recipients,
     value : {MaxWord},
     nonce : {Absent},
     gas : {Absent, Hex(IntrinsicGas - 1), Hex(IntrinsicGas)},
     gas_price : {Absent} \cup {Hex(g) : g \in GasPrices},
     data : {"none", "bytes"},
     network_id : {"none"},
     token_address : {"none", Tokens[1]}]

Plain ==
    [from_address |-> "a", to_address |-> "b", value |-> Hex(1), nonce |-> Absent,
     gas |-> Absent, gas_price |-> Absent, data |-> "none", network_id |-> "configured",
     token_address |-> "none"]

BrokenCalls ==
    {[Plain EXCEPT !.from_address = f] : f \in {"invalid", "badsum"}}
    \cup {[Plain EXCEPT !.to_address = t] : t \in {"invalid", "badsum"}}
    \cup {[Plain EXCEPT !.network_id = n] : n \in {"configured", "other", "malformed"}}
    \cup {[Plain EXCEPT !.value = Absent], [Plain EXCEPT !.to_address = "k"],
          [Plain EXCEPT !.value = Undecodable], [Plain EXCEPT !.nonce = Undecodable],
          [Plain EXCEPT !.gas = Undecodable], [Plain EXCEPT !.gas_price = Undecodable],
          [Plain EXCEPT !.gas_price = Undecodable, !.nonce = Hex(0)],
          [Plain EXCEPT !.data = "invalid"], [Plain EXCEPT !.token_address = "invalid"]}

SkeletonNext ==
    \/ \E c \in SkeletonCalls \cup BrokenCalls :
          SkStart(c.from_address, c.to_address, c.value, c.nonce, c.gas, c.gas_price,
                  c.data, c.network_id, c.token_address)
    \/ create_transaction_skeleton
    \/ skel.pc = "idle" /\ add_token("a", Tokens[1], TRUE, Hex(1))

SkeletonSpec == SkeletonInit /\ [][SkeletonNext]_vars

\* one client: it asks for a skeleton or submits a transaction, one call at a
\* time
ClientCalls ==
    [from_address : {"a"}, to_address : Recipients,
     value : {Hex(1), MaxWord},
     nonce : {Absent},
     gas : {Absent, Hex(IntrinsicGas - 1), Hex(IntrinsicGas)},
     gas_price : {Absent},
     data : {"none", "bytes"},
     network_id : {"none"},
     token_address : {"none", Tokens[1]}]

ClientNext ==
    \/ /\ skel.pc = "idle"
       /\ \E t \in WideTxs, wellformed \in BOOLEAN, signed \in BOOLEAN,
             signature \in Signatures, network_id \in NetworkIds :
               Start("c1", t, wellformed, signed, signature, network_id)
    \/ send_transaction("c1")
    \/ /\ pc["c1"] = "idle"
       /\ \E c \in ClientCalls :
             SkStart(c.from_address, c.to_address, c.value, c.nonce, c.gas, c.gas_price,
                     c.data, c.network_id, c.token_address)
    \/ create_transaction_skeleton

ClientSpec == Init /\ [][ClientNext]_vars

\* balance queries of two callers, overlapping, while the user adds and
\* removes a token
QueryNext ==
    \/ \E c \in Callers, eth_address \in Addresses \cup {"invalid"},
          token_address \in {"none", Tokens[1], "invalid"}, force_update \in BOOLEAN :
            GStart(c, eth_address, token_address, force_update)
    \/ \E c \in Callers : get_token_balances(c)
    \/ add_token("a", Tokens[1], TRUE, Hex(1))
    \/ remove_token("a", Tokens[1])

QuerySpec == Init /\ [][QueryNext]_vars

\* ------------------------------------------------------------ claims -----
\* the hash a call returns names the (sender, nonce) it submitted
Returned(p) == pc[p] = "done" /\ result[p].id = "ok"
ReturnedKey(p) == <<result[p].message[1], result[p].message[2]>>

\* C1: of two overlapping send_transaction calls of the same (sender, nonce)
\* that both find no row for the pair, never both return a transaction hash
C1_OneSubmissionWins ==
    \A p \in Calls : \A q \in Calls \ {p} :
        ~ /\ Returned(p) /\ Returned(q)
          /\ ReturnedKey(p) = ReturnedKey(q)
          /\ existing[p] = 0 /\ existing[q] = 0

\* rows of one (from_address, nonce) whose status is not error
LiveRows(address, nonce) ==
    {i \in RowIds : /\ rows[i].from_address = address
                    /\ rows[i].nonce = nonce
                    /\ rows[i].status # "error"}

\* C2: every (from_address, nonce) has at most one row whose status is not error
C2_OneLiveRowPerNonce ==
    \A k \in Keys : Cardinality(LiveRows(k[1], k[2])) <= 1

\* C3: at most one call is inside the critical section of one (sender, nonce)
C3_MutualExclusion ==
    \A p \in Calls : \A q \in Calls \ {p} :
        ~ (InCritical(p) /\ InCritical(q) /\ Key(tx[p]) = Key(tx[q]))

\* a step of call p that is neither the passing of time nor a crash
Steps(p) == pc'[p] # pc[p] /\ pc'[p] # "idle"

\* the update_transaction task that sets row e to error
ToError(e) == [transaction_id |-> e, status |-> "error"]

\* what sufficient funds means: the spendable balance, plus value + gas *
\* gas_price of the superseded row if there is one, covers the transaction
Spendable(p) ==
    get_balances(tx[p].sender)
        + (IF existing[p] # 0
           THEN rows[existing[p]].value + rows[existing[p]].gas * rows[existing[p]].gas_price
           ELSE 0)
Affordable(p) ==
    Spendable(p) >= tx[p].value + tx[p].startgas * tx[p].gasprice

C5_OverwriteRefused ==
    [][\A p \in Calls :
        /\ ( /\ pc[p] = "existing" /\ Steps(p)
             /\ ExistingRows(tx[p]) # {}
             /\ \A e \in ExistingRows(tx[p]) :
                    rows[e].gas_price >= tx[p].gasprice \/ rows[e].status = "confirmed" )
           => ( /\ pc'[p] = "unlock"
                /\ result'[p] = NonceAlreadyUsed )
        /\ (pc[p] = "existing" /\ Steps(p) /\ existing'[p] # 0)
           => ( /\ rows[existing'[p]].gas_price < tx[p].gasprice
                /\ rows[existing'[p]].status # "confirmed" )
        /\ (pc[p] \in {"existing", "unlock", "done"} /\ pc'[p] # pc[p] /\ result'[p] # NoResult
              /\ result'[p].id # "ok")
           => (rows' = rows /\ updates' = updates /\ triggers' = triggers)
    ]_vars

\* C5 witness: a call holding the lock was refused at an occupied nonce
C5_Witness ==
    \E p \in Calls :
        /\ pc[p] = "unlock" /\ result[p] = NonceAlreadyUsed
        /\ \E e \in ExistingRows(tx[p]) : rows[e].status = "confirmed"

\* C6: the fund check passes exactly when the spendable balance, plus the
\* credit for a superseded row and none otherwise, covers value + gas * price;
\* a call that fails it raises Insufficient Funds and goes no further
C6_FundCheck ==
    [][\A p \in Calls :
        (pc[p] = "balances" /\ Steps(p) /\ result'[p] # RpcError)
        => IF Affordable(p)
           THEN result'[p] # InsufficientFunds /\ pc'[p] \in {"count_rpc", "insert", "unlock"}
           ELSE result'[p] = InsufficientFunds /\ pc'[p] = "unlock"
    ]_vars

\* C6 witness: a superseding submission was refused for funds, its credit counted
C6_Witness ==
    \E p \in Calls :
        /\ pc[p] = "unlock" /\ result[p] = InsufficientFunds
        /\ ExistingRows(tx[p]) # {}
        /\ \A e \in ExistingRows(tx[p]) :
               rows[e].gas_price < tx[p].gasprice /\ rows[e].status # "confirmed"

\* the next allowed nonce: the larger of the network count the call read and
\* one more than the highest nonce of the sender's pending rows
ExpectedNonce(p) ==
    LET pend == {rows[i].nonce : i \in {j \in RowIds :
                     /\ rows[j].from_address = tx[p].sender
                     /\ rows[j].status \in {"new", "queued", "unconfirmed"}}}
    IN IF pend = {} THEN nw_nonce[p]
       ELSE LET top == CHOOSE n \in pend : \A m \in pend : m <= n
            IN IF top + 1 > nw_nonce[p] THEN top + 1 ELSE nw_nonce[p]

NonceErrors == {NonceTooLow, NonceTooHigh}

\* C7: with no existing row the call passes the nonce check exactly when its
\* nonce equals the next allowed nonce; with an existing row the check is skipped
C7_NonceCheck ==
    [][\A p \in Calls :
        /\ (pc[p] = "count_db" /\ Steps(p))
           => /\ existing[p] = 0
              /\ IF tx[p].nonce = ExpectedNonce(p)
                 THEN pc'[p] \in {"insert", "unlock"} /\ result'[p] \notin NonceErrors
                 ELSE pc'[p] = "unlock" /\ result'[p] \in NonceErrors
        /\ (pc[p] = "count_rpc" /\ Steps(p) /\ result'[p] # RpcError)
           => (pc'[p] = "count_db" /\ nw_nonce'[p] = nwNonce[tx[p].sender])
        /\ (pc[p] = "balances" /\ Steps(p) /\ existing[p] = 0)
           => pc'[p] \in {"count_rpc", "unlock"}
        /\ (pc[p] = "balances" /\ Steps(p) /\ existing[p] # 0)
           => (pc'[p] \in {"insert", "unlock"} /\ result'[p] \notin NonceErrors)
    ]_vars

\* C7 witness: a call without an existing row passed the check at a nonce that
\* the pending rows, not the network count, made the next one
C7_Witness ==
    \E p \in Calls :
        /\ pc[p] = "insert" /\ existing[p] = 0
        /\ tx[p].nonce > nwNonce[tx[p].sender]

\* C8 as claimed: the id of a too low rejection differs from the id the nonce
\* check gives any too high nonce
C8_DistinctIds ==
    [][\A p \in Calls :
        (pc[p] = "count_db" /\ Steps(p) /\ tx[p].nonce < ExpectedNonce(p))
        => \A t \in WideTxs : \A c \in Nonces :
               t.nonce > c => NonceCheck(t, c).id # result'[p].id
    ]_vars

\* C8 as amended: both rejections carry the id invalid_nonce and differ in
\* their message
C8_SameIdDistinctMessages ==
    [][\A p \in Calls :
        /\ (pc[p] = "count_db" /\ Steps(p) /\ tx[p].nonce < ExpectedNonce(p))
           => /\ result'[p].id = "invalid_nonce"
              /\ result'[p].message = "Provided nonce is too low"
              /\ \A t \in WideTxs : \A c \in Nonces :
                     t.nonce > c => /\ NonceCheck(t, c).id = result'[p].id
                                    /\ NonceCheck(t, c).message # result'[p].message
        /\ (pc[p] = "count_db" /\ Steps(p) /\ tx[p].nonce > ExpectedNonce(p))
           => /\ result'[p].id = "invalid_nonce"
              /\ result'[p].message = "Provided nonce is too high"
    ]_vars

\* C8 witness: a call was rejected for a nonce that is too low
C8_Witness ==
    \E p \in Calls : pc[p] = "unlock" /\ result[p] = NonceTooLow

\* C9: a call that finds the key set ends at once with Nonce already used; it
\* reads no row, changes no row, dispatches nothing and leaves the key alone
C9_LockedFailsFast ==
    [][\A p \in Calls :
        (pc[p] = "lock" /\ Steps(p) /\ locks[Key(tx[p])].held)
        => /\ pc'[p] = "done"
           /\ result'[p] = NonceAlreadyUsed
           /\ existing'[p] = 0
           /\ rows' = rows /\ updates' = updates /\ triggers' = triggers
           /\ locks' = locks
    ]_vars

\* C9 witness: a call was turned away at the lock
C9_Witness ==
    \E p \in Calls :
        /\ pc[p] = "done" /\ result[p] = NonceAlreadyUsed
        /\ tx[p].sender \in Senders

\* C10: a key that is set is eventually not set, whatever its holder does
C10_LockEventuallyFree ==
    \A k \in Keys : locks[k].held ~> ~locks[k].held

\* C10 witness: a key is set and no call is in its critical section
C10_Witness ==
    \E k \in Keys :
        /\ locks[k].held
        /\ \A p \in Calls : ~(InCritical(p) /\ Key(tx[p]) = k)

\* C11: a call that leaves the lock block, with the hash or with an error
\* raised inside it, deletes the key in that step; a call for the same pair that
\* starts after it has finished is never turned away at the lock
C11_ReleasedOnExit ==
    [][\A p \in Calls :
        /\ (pc[p] = "unlock" /\ Steps(p))
           => (pc'[p] = "done" /\ ~locks'[Key(tx[p])].held)
        /\ (pc[p] = "lock" /\ Steps(p))
           => (pc'[p] = "existing" /\ result'[p] # NonceAlreadyUsed)
    ]_vars

\* C11 witness: an earlier call for the pair inserted its row and finished, and
\* the next call for the same pair has taken the lock
C11_Witness ==
    \E p \in Calls : \E i \in RowIds :
        /\ pc[p] = "existing"
        /\ rows[i].from_address = tx[p].sender /\ rows[i].nonce = tx[p].nonce

\* C12: a row the chain monitor has advanced to unconfirmed or confirmed is
\* never set to error on behalf of a cancellation (under CancelSpec nothing
\* but cancel_queued_transaction requests the error status)
C12_NoCancelAfterAdvance ==
    [][\A i \in RowIds :
        rows[i].status \in {"unconfirmed", "confirmed"} => rows'[i].status # "error"
    ]_vars

\* C13: the fetch returns a non-error row of that hash if there is one; the
\* call then fails with not_found, invalid_transaction_status, permission_denied
\* in that order, requesting nothing, and requests the error status only when
\* the row is new or queued and its sender signed "Cancel transaction <hash>"
C13_CancelChecks ==
    [][/\ (cancel.pc = "idle" /\ cancel'.pc = "fetched")
          => LET live == {j \in RowIds : /\ Hash(rows[j]) = cancel'.tx_hash
                                         /\ rows[j].status # "error"}
                 got == cancel'.tx
             IN IF live = {} THEN got.transaction_id = 0
                ELSE /\ got.transaction_id \in live
                     /\ got.status = rows[got.transaction_id].status
                     /\ got.from_address = rows[got.transaction_id].from_address
       /\ (cancel.pc = "fetched" /\ cancel'.pc = "done")
          => LET t == cancel.tx
                 signed == /\ cancel.signature.signer = t.from_address
                           /\ cancel.signature.message = <<"Cancel transaction ", cancel.tx_hash>>
             IN IF t.transaction_id = 0
                THEN cancel'.result = NotFound /\ updates' = updates
                ELSE IF t.status \notin {"new", "queued"}
                THEN cancel'.result = InvalidTransactionStatus /\ updates' = updates
                ELSE IF ~signed
                THEN cancel'.result = PermissionDenied /\ updates' = updates
                ELSE /\ cancel'.result = Cancelled
                     /\ updates' = updates \cup {ToError(t.transaction_id)}
       /\ ~(updates' \subseteq updates)
          => (cancel.pc = "fetched" /\ cancel'.result = Cancelled)
    ]_vars

\* C13 witness: a cancellation passed the three checks and its request is
\* waiting for the manager
C13_Witness ==
    /\ cancel.pc = "done" /\ cancel.result = Cancelled
    /\ \E i \in RowIds : ToError(i) \in updates /\ rows[i].status \in {"new", "queued"}

InBatch(w) == upd[w].pc \in {"execute", "write"}

\* C14: a wildcard refresh that finds the cooldown key of its address set ends
\* there, with no batch, no write and no notification; one that finds it unset
\* sets it, and the key stays set until CooldownTTL seconds have passed; so of
\* two wildcard refreshes of an address that are both past the key, one set it
\* at least CooldownTTL seconds ago
C14_OneBatchPerWindow ==
    [][/\ \A w \in Workers :
            LET address == upd[w].eth_addresses[1]
            IN /\ (upd[w].pc = "cooldown" /\ upd'[w].pc # "cooldown" /\ cooldown[address].held)
                  => /\ upd'[w].pc = "done"
                     /\ token_balances' = token_balances
                     /\ notifications' = notifications
                     /\ cooldown' = cooldown
               /\ (upd[w].pc = "cooldown" /\ upd'[w].pc # "cooldown" /\ ~cooldown[address].held)
                  => /\ upd'[w].pc = "execute"
                     /\ cooldown'[address] = [held |-> TRUE, ttl |-> CooldownTTL]
               /\ (IsWildcard(w)' /\ InBatch(w)' /\ ~InBatch(w))
                  => upd[w].pc = "cooldown"
       /\ \A w1 \in Workers : \A w2 \in Workers \ {w1} :
            (/\ IsWildcard(w1)' /\ IsWildcard(w2)' /\ InBatch(w1)' /\ InBatch(w2)'
             /\ upd'[w1].eth_addresses = upd'[w2].eth_addresses)
            => (upd'[w1].start_time >= CooldownTTL \/ upd'[w2].start_time >= CooldownTTL)
       /\ \A a \in Addresses :
            (cooldown[a].held /\ ~cooldown'[a].held) => cooldown[a].ttl <= RefreshTick
    ]_vars

\* C14 witness: one refresh is running its batch inside the window and the
\* other has been turned away at the key
C14_Witness ==
    \E w1 \in Workers : \E w2 \in Workers \ {w1} :
        /\ InBatch(w1) /\ IsWildcard(w1) /\ upd[w1].start_time < CooldownTTL
        /\ upd[w2].result = "skipped"

\* C15: a wildcard refresh given more than one address raises at once; it sets
\* no cooldown key, reaches no batch and changes no token_balances row
C15_WildcardOneAddress ==
    [][\A w \in Workers :
        (IsWildcard(w)' /\ Len(upd'[w].eth_addresses) > 1)
        => /\ upd'[w].pc = "done" /\ upd'[w].result = "raised"
           /\ upd[w].pc = "idle"
              => /\ cooldown' = cooldown
                 /\ token_balances' = token_balances
                 /\ notifications' = notifications
    ]_vars

\* C15 witness: a wildcard refresh of two addresses has been rejected
C15_Witness ==
    \E w \in Workers :
        /\ upd[w].result = "raised" /\ IsWildcard(w)
        /\ Len(upd[w].eth_addresses) = 2

NonZero(value) == value \notin {ZeroWord, Empty, Failed, Undecodable}
IsZero(value) == value \in {ZeroWord, Empty}
Count(futures, Test(_)) == Cardinality({k \in 1..Len(futures) : Test(futures[k][3])})
InList(list, pr) == \E k \in 1..Len(list) : <<list[k][1], list[k][2]>> = pr

\* C16: of the pairs of one pass, those whose result is a nonzero word are
\* upserted with its value, those whose result is the zero word or empty are
\* deleted, none is in both statements, and the statements have as many
\* entries as there are such pairs (one and one for a nonzero and a zero pair)
C16_UpsertOrDelete ==
    [][\A w \in Workers :
        (upd[w].pc = "write" /\ upd'[w].pc = "done")
        => LET F == upd[w].futures
               ins == bulk_insert(F)
               del == bulk_delete(F)
           IN /\ Len(ins) = Count(F, NonZero)
              /\ Len(del) = Count(F, IsZero)
              /\ \A k \in 1..Len(F) :
                   LET pr == <<F[k][1], F[k][2]>>
                   IN /\ NonZero(F[k][3])
                         => /\ InList(ins, pr) /\ ~InList(del, pr)
                            /\ Present(token_balances'[pr])
                            /\ token_balances'[pr].value = [hex |-> F[k][3].hex, width |-> 1]
                      /\ IsZero(F[k][3])
                         => /\ InList(del, pr) /\ ~InList(ins, pr)
                            /\ ~Present(token_balances'[pr])
                      /\ F[k][3] = Failed
                         => /\ ~InList(del, pr) /\ ~InList(ins, pr)
                            /\ token_balances'[pr] = token_balances[pr]
              /\ \A pr \in Pairs :
                   (~InList(ins, pr) /\ ~InList(del, pr))
                   => token_balances'[pr] = token_balances[pr]
    ]_vars

\* C16 witness: a pass over two tokens got one nonzero and one zero result
C16_Witness ==
    \E w \in Workers :
        /\ upd[w].pc = "write" /\ Len(upd[w].futures) = 2
        /\ NonZero(upd[w].futures[1][3]) /\ IsZero(upd[w].futures[2][3])
        /\ Len(bulk_insert(upd[w].futures)) = 1 /\ Len(bulk_delete(upd[w].futures)) = 1

\* C21: when a pass ends in which the result of a pair raised or could not be
\* decoded, that pair is in neither statement and its row is as it was, every
\* other pair of the batch has the row its result stands for, and the pass
\* returns normally
C21_FailedPairSkipped ==
    [][\A w \in Workers :
        (/\ upd[w].pc = "write" /\ upd'[w].pc # "write"
         /\ \E k \in 1..Len(upd[w].futures) : upd[w].futures[k][3] \in {Failed, Undecodable})
        => LET F == upd[w].futures
           IN /\ upd'[w].pc = "done" /\ upd'[w].result = "returned"
              /\ \A k \in 1..Len(F) :
                   LET pr == <<F[k][1], F[k][2]>>
                       row == token_balances'[pr]
                   IN CASE F[k][3] \in {Failed, Undecodable} ->
                             /\ ~InList(bulk_insert(F), pr)
                             /\ ~InList(bulk_delete(F), pr)
                             /\ row = token_balances[pr]
                        [] F[k][3] \in {ZeroWord, Empty} -> row = NoRow
                        [] OTHER ->
                             /\ Present(row)
                             /\ row.value = Hex(F[k][3].hex)
                             /\ row.visibility =
                                   IF Present(token_balances[pr])
                                   THEN token_balances[pr].visibility ELSE Auto
    ]_vars

\* C21 witness: a pass is about to write with a failed result for a pair that
\* has a row, and a nonzero result for another pair
C21_Witness ==
    \E w \in Workers :
        /\ upd[w].pc = "write" /\ Len(upd[w].futures) = 2
        /\ upd[w].futures[1][3] \in {Failed, Undecodable}
        /\ Present(token_balances[<<upd[w].futures[1][1], upd[w].futures[1][2]>>])
        /\ NonZero(upd[w].futures[2][3])

\* C17: every row of token_balances has a balance above zero or the
\* visibility manual
C17_RowsPositiveOrManual ==
    \A pr \in Pairs :
        Present(token_balances[pr])
        => (token_balances[pr].balance.hex > 0 \/ token_balances[pr].visibility = 2)

\* C18: a pass that computes a zero balance for a pair leaves the pair's row
\* in place when the row was added manually
C18_ManualSurvives ==
    [][\A w \in Workers : \A pr \in Pairs :
        (/\ upd[w].pc = "write" /\ upd'[w].pc = "done"
         /\ Present(token_balances[pr]) /\ token_balances[pr].visibility = 2)
        => Present(token_balances'[pr])
    ]_vars

\* the table holds what a pass with these results leaves
Agrees(tb, futures) ==
    \A k \in 1..Len(futures) :
        LET pr == <<futures[k][1], futures[k][2]>>
        IN /\ NonZero(futures[k][3])
              => (Present(tb[pr]) /\ tb[pr].value.hex = futures[k][3].hex)
           /\ IsZero(futures[k][3]) => ~Present(tb[pr])

\* C19: after a pass the table holds the pass's results, with no row for a
\* zero balance; a pass over a table that already holds its results, as the
\* one before it with the same on-chain balances left it, changes nothing
C19_Idempotent ==
    [][\A w \in Workers :
        (upd[w].pc = "write" /\ upd'[w].pc = "done")
        => /\ Agrees(token_balances', upd[w].futures)
           /\ Agrees(token_balances, upd[w].futures) => token_balances' = token_balances
           /\ Materialize(token_balances', upd[w].futures) = token_balances'
    ]_vars

\* C19 witness: a pass is about to write results the table already holds, one
\* of them zero and one not
C19_Witness ==
    \E w \in Workers :
        /\ upd[w].pc = "write" /\ Agrees(token_balances, upd[w].futures)
        /\ \E k \in 1..Len(upd[w].futures) : NonZero(upd[w].futures[k][3])
        /\ \E k \in 1..Len(upd[w].futures) : IsZero(upd[w].futures[k][3])

\* C20: a pass dispatches the notification only if it is a wildcard pass and
\* it changed a row of token_balances
C20_NotifyOnChangeOnly ==
    [][\A w \in Workers :
        (upd[w].pc = "write" /\ upd'[w].pc = "done" /\ notifications' # notifications)
        => (IsWildcard(w) /\ token_balances' # token_balances)
    ]_vars

\* the nonces of the address's rows in status new, queued or unconfirmed
PendingNonces(address) ==
    {rows[i].nonce : i \in {j \in RowIds : /\ rows[j].from_address = address
                                           /\ rows[j].status \in {"new", "queued", "unconfirmed"}}}

Highest(S) == CHOOSE n \in S : \A m \in S : m <= n

Answered == skel.pc = "done" /\ skel.result = Ok

\* C22: a skeleton asked for without a nonce carries the larger of the
\* sender's network transaction count and one more than the highest nonce of
\* the sender's rows in status new, queued or unconfirmed, and the network
\* count when there is no such row
C22_NonceResolution ==
    (Answered /\ skel.args.nonce = Absent)
    => LET pending == PendingNonces(skel.from_address)
           count == nwNonce[skel.from_address]
       IN skel.response.nonce =
             IF pending = {} THEN Hex(count)
             ELSE Hex(Max(count, 1 + Highest(pending)))

\* C22 witness: the skeleton's nonce follows a pending row although an error
\* row of the sender has a higher nonce
C22_Witness ==
    /\ Answered /\ skel.args.nonce = Absent
    /\ PendingNonces(skel.from_address) # {}
    /\ \E i \in RowIds : /\ rows[i].status \in {"error", "confirmed"}
                         /\ rows[i].nonce >= skel.response.nonce.hex
    /\ skel.response.nonce.hex > nwNonce[skel.from_address]

\* C23: the gas price of a skeleton is the one the caller gave only when a
\* nonce came with it or one of the two lists has the from or to address;
\* otherwise it is the cached fast price when there is one, else the price
\* the node reports, else the configured default; the response carries it
C23_GasPricePrecedence ==
    [][/\ (skel.pc = "gas_price" /\ skel'.pc = "nonce")
          => LET given == skel.args.gas_price
                 fast == skel'.gas_station_gas_price
             IN IF given # Absent /\ (skel.args.nonce # Absent \/ skel'.whitelisted)
                THEN skel'.gas_price = given.hex
                ELSE IF fast.width > 0 THEN skel'.gas_price = fast.hex
                ELSE IF skel'.eth_gasPrice # None THEN skel'.gas_price = skel'.eth_gasPrice
                ELSE skel'.gas_price = DefaultGasPrice
       /\ (skel.pc \notin {"idle", "gas_price", "done"} /\ skel'.pc # "idle")
          => /\ skel'.gas_price = skel.gas_price
             /\ (skel'.pc = "done" /\ skel'.result = Ok)
                => skel'.response.gas_price = Hex(skel.gas_price)
    ]_vars

\* C23 witness: a price given without a nonce by a caller on neither list
\* gave way to the cached fast price
C23_Witness ==
    /\ skel.pc = "nonce"
    /\ skel.args.gas_price # Absent /\ skel.args.nonce = Absent
    /\ ~skel.whitelisted
    /\ skel.gas_station_gas_price.width > 0
    /\ skel.gas_price = skel.gas_station_gas_price.hex
    /\ skel.gas_price # skel.args.gas_price.hex

\* a finished call for everything the sender has, to a plain address, with
\* neither gas nor data nor token given
MaxToPlain ==
    /\ skel.pc = "done"
    /\ skel.args.value = MaxWord /\ skel.args.gas = Absent
    /\ skel.args.data = "none" /\ skel.args.token_address = "none"
    /\ skel.to_address \notin Contracts

\* C24: value "max" to an address without code, no gas given: when the
\* sender's balance covers 21000 * gas_price the skeleton has gas 21000 and
\* value balance - 21000 * gas_price, and when it does not the call fails
\* with Insufficient Funds
C24_MaxValuePlain ==
    MaxToPlain
    => LET balance == get_balances(skel.from_address)
           cost == 21000 * skel.gas_price
       IN IF balance >= cost
          THEN /\ skel.result = Ok
               /\ skel.response.gas = Hex(21000)
               /\ skel.response.value = Hex(balance - cost)
          ELSE skel.result = InsufficientFunds

\* the half of C24 that holds: a balance that covers the cost
C24_CoveredCost ==
    (MaxToPlain /\ get_balances(skel.from_address) >= 21000 * skel.gas_price)
    => /\ skel.result = Ok
       /\ skel.response.gas = Hex(21000)
       /\ skel.response.value = Hex(get_balances(skel.from_address) - 21000 * skel.gas_price)

\* C25: in the loop for "max" to a contract an estimate at the tentative
\* value balance - gas * gas_price is asked for at most three times; the loop
\* is left for the rest of the call only with an estimate equal to the gas
\* the value was computed from; it fails with Cannot send payments to that
\* address when the estimate changed three times or the estimate fails, and
\* with Insufficient Funds when the tentative value is negative
C25_MaxLoop ==
    [][skel.pc = "loop"
       => LET value == skel.balance - skel.gas * skel.gas_price
              asked == skel.attempts <= 2 /\ value >= 0
          IN /\ skel.attempts <= 3
             /\ skel'.pc \in {"loop", "build", "done"}
             /\ skel'.pc = "loop"
                => /\ asked
                   /\ skel'.attempts = skel.attempts + 1
                   /\ skel'.gas_with_value # skel.gas
                   /\ skel'.gas = skel'.gas_with_value
             /\ skel'.pc = "build"
                => /\ asked
                   /\ skel'.gas_with_value = skel.gas
                   /\ skel'.gas = skel.gas
                   /\ skel'.value = value
             /\ skel'.pc = "done"
                => IF skel.attempts > 2 THEN skel'.result = CannotSend
                   ELSE IF value < 0 THEN skel'.result = InsufficientFunds
                   ELSE skel'.result = CannotSend /\ skel'.gas_with_value = None
    ]_vars

\* C25 witness: the estimate changed for the third time
C25_Witness ==
    /\ skel.pc = "loop" /\ skel.attempts = 3
    /\ skel.balance - skel.gas * skel.gas_price >= 0

\* C26: a skeleton that is returned has gas of at least 21000 plus 4 for each
\* zero byte and 68 for each other byte of its data; a skeleton whose gas is
\* below that is refused as invalid_transaction; and send_transaction lets no
\* transaction with startgas below its minimal cost reach the INSERT, so no
\* row has less
C26_MinimalGas ==
    [][/\ (skel.pc = "build" /\ skel'.pc = "done")
          => LET minimal == 21000 + 4 * skel.data.zero + 68 * skel.data.nonzero
             IN /\ skel'.result = Ok
                   => /\ skel'.response.gas.hex >= minimal
                      /\ skel'.response.gas = Hex(skel.gas)
                /\ skel.gas < minimal => skel'.result.id = "invalid_transaction"
       /\ \A p \in Calls :
            /\ pc'[p] = "insert" => tx'[p].startgas >= 21000
            /\ (/\ pc[p] \in {"balances", "count_db"} /\ pc'[p] \notin {pc[p], "idle", "count_rpc"}
                /\ tx[p].startgas < 21000)
               => result'[p] \in {GasTooLow, InsufficientFunds, NonceTooLow, NonceTooHigh,
                                  RpcError}
       /\ \A i \in 1..Len(rows') : rows'[i].gas >= 21000
    ]_vars

\* C26 witness: a skeleton with data whose given gas covers a plain transfer
\* only is about to be refused, after a transaction was submitted
C26_Witness ==
    /\ skel.pc = "build"
    /\ skel.args.gas = Hex(21000)
    /\ skel.gas < 21000 + 4 * skel.data.zero + 68 * skel.data.nonzero
    /\ Len(rows) > 0

\* C27: the process_transaction_queue task is dispatched, and the analytics
\* lookups and track calls are made, when the key of the sender and nonce is
\* no longer held
C27_SideEffectsOutsideLock ==
    [][\A p \in Calls :
        (\/ pc[p] = "insert" /\ pc'[p] = "analytics" /\ triggers' # triggers
         \/ pc[p] = "analytics" /\ pc'[p] = "unlock")
        => ~locks[Key(tx[p])].held
    ]_vars

\* C28: once the row of a submission is committed, the call returns the
\* transaction hash, whatever becomes of the registration lookups and the
\* track calls that follow
C28_SideEffectsNeverFail ==
    [][\A p \in Calls :
        (pc[p] = "analytics" /\ pc'[p] \notin {"analytics", "idle"})
        => result'[p] = TxHash(tx[p])
    ]_vars

\* a step of send_transaction or cancel_queued_transaction
Submits ==
    \/ \E p \in Calls : pc'[p] # pc[p]
    \/ updates' \ updates # {}

\* C29: every status send_transaction and cancel_queued_transaction ask the
\* manager for is error; none of their steps changes a row that exists, so
\* none moves a row to confirmed or unconfirmed; and each row they insert has
\* status new
C29_SubmitterOwnership ==
    [][/\ \A u \in updates' \ updates : u.status = "error"
       /\ Submits
          => /\ Len(rows') \in {Len(rows), Len(rows) + 1}
             /\ \A i \in 1..Len(rows) : rows'[i] = rows[i]
             /\ Len(rows') > Len(rows) => rows'[Len(rows')].status = "new"
    ]_vars

\* C29 witness: a superseding transaction was inserted as new and the error
\* of the row it replaces is requested
C29_Witness ==
    /\ Len(rows) = 2
    /\ rows[2].status = "new" /\ rows[2].nonce = rows[1].nonce
    /\ [transaction_id |-> 1, status |-> "error"] \in updates
    /\ rows[1].status # "error"

\* C30: a balance query that got past its registration step leaves a row of
\* token_registrations for its address, and no step removes a row; a query
\* whose UPDATE finds no row requests the wildcard refresh for the address,
\* and one that finds the row and is not forced requests none
C30_RegisteredOnce ==
    [][/\ token_registrations \subseteq token_registrations'
       /\ \A c \in Callers :
            /\ gtb'[c].pc \in {"read", "done"} /\ gtb'[c].result \in {NoResult, Ok}
               => gtb'[c].eth_address \in token_registrations'
            /\ (gtb[c].pc = "update" /\ gtb'[c].pc # "update")
               => LET address == gtb[c].eth_address
                      requested == refreshes'[address] - refreshes[address]
                  IN /\ address \notin token_registrations => requested = 1
                     /\ (address \in token_registrations /\ ~gtb[c].force_update)
                        => requested = 0
                     /\ \A a \in Addresses \ {address} : refreshes'[a] = refreshes[a]
    ]_vars

\* C30 witness: the address was registered and refreshed by an earlier query,
\* and a later unforced query for it has gone on without a request
C30_Witness ==
    \E c \in Callers :
        /\ gtb[c].pc = "read" /\ gtb[c].registered /\ ~gtb[c].force_update
        /\ gtb[c].eth_address \in token_registrations
        /\ refreshes[gtb[c].eth_address] = 1
        /\ \A d \in Callers \ {c} : gtb[d].pc = "idle"

\* C31: no step of update_token_cache clears or renews the cooldown key: a key
\* that is set stays set, running down, until its CooldownTTL seconds have
\* passed, whether the refresh that set it wrote, failed in the batch, failed
\* in the write or changed nothing; while it is set every wildcard refresh of
\* the address ends at the key without a batch, and once it has expired the
\* next wildcard refresh sets it again and runs the batch
C31_KeyOutlivesRefresh ==
    [][/\ \A a \in Addresses :
            /\ (cooldown[a].held /\ ~cooldown'[a].held)
               => (cooldown[a].ttl <= RefreshTick /\ \A w \in Workers : upd'[w].pc = upd[w].pc)
            /\ (cooldown[a].held /\ cooldown'[a].held) => cooldown'[a].ttl <= cooldown[a].ttl
       /\ \A w \in Workers :
            /\ (upd[w].pc \in {"execute", "write"} /\ upd'[w].pc = "done")
               => cooldown' = cooldown
            /\ (upd[w].pc = "write" /\ upd'[w].pc = "done" /\ upd'[w].result = "raised")
               => token_balances' = token_balances /\ notifications' = notifications
            /\ (upd[w].pc = "cooldown" /\ upd'[w].pc # "cooldown")
               => IF cooldown[upd[w].eth_addresses[1]].held
                  THEN upd'[w] = Finished("skipped") /\ cooldown' = cooldown
                  ELSE /\ upd'[w].pc = "execute"
                       /\ cooldown'[upd[w].eth_addresses[1]] = [held |-> TRUE, ttl |-> CooldownTTL]
    ]_vars

\* C31 witness: one refresh has failed, its key is still set, and the refresh
\* that came after it has been turned away at the key
C31_Witness ==
    \E w1 \in Workers : \E w2 \in Workers \ {w1} :
        /\ upd[w1].pc = "done" /\ upd[w1].result = "raised"
        /\ upd[w2].pc = "done" /\ upd[w2].result = "skipped"
        /\ cooldown["a"].held /\ cooldown["a"].ttl < CooldownTTL

\* the row of the pair was made by a refresh that found a balance above zero,
\* and nothing else has written to it
Refreshed(pr) ==
    /\ Present(token_balances[pr])
    /\ token_balances[pr].visibility = Auto
    /\ token_balances[pr].value # Absent

\* C39: a refresh that finds a balance above zero leaves the visibility of a
\* row that exists as it was; and once it has committed, get_token_balances
\* for that token and the token "max" path of create_transaction_skeleton
\* both read the balance the refresh stored
C39_ReadersSeeRefresh ==
    [][/\ \A w \in Workers :
            (upd[w].pc = "write" /\ upd'[w].pc = "done")
            => \A pr \in Pairs :
                 (Present(token_balances[pr]) /\ Present(token_balances'[pr]))
                 => token_balances'[pr].visibility = token_balances[pr].visibility
       /\ \A c \in Callers :
            LET pr == <<gtb[c].token_address, gtb[c].eth_address>>
            IN (/\ gtb[c].pc = "read" /\ gtb'[c].pc = "done"
                /\ pr \in Pairs /\ Refreshed(pr))
               => gtb'[c].tokens = {<<pr[1], token_balances[pr].value>>}
       /\ LET pr == <<skel.args.token_address, skel.from_address>>
          IN (/\ skel.pc = "value" /\ skel'.pc # "value"
              /\ skel.args.value = MaxWord
              /\ pr \in Pairs /\ Refreshed(pr))
             => skel'.token_value = token_balances[pr].value.hex
    ]_vars

\* the number of bytes of a calldata: the selector and 32 for each word
CalldataBytes(data) ==
    IF data.selector = "" THEN 0 ELSE 4 + 32 * (Len(data.addresses) + 1)

\* C32: send_transaction adds a token_transactions entry exactly when the
\* calldata is a transfer call of 68 bytes (selector 0xa9059cbb) or a
\* transferFrom call of 100 bytes (selector 0x23b872dd) and tx.to is a row of
\* tokens; the entry, decoded from the calldata, appears in the step that
\* adds the transactions row, no other step adds one, and every entry's
\* transaction_id is the id of a row of transactions.
C32_LedgerEntry ==
    [][/\ \A e \in token_transactions' : e.transaction_id \in 1..Len(rows')
       /\ token_transactions' # token_transactions
            => \E p \in Calls : pc[p] = "insert" /\ pc'[p] = "analytics"
       /\ \A p \in Calls :
            pc[p] = "insert" /\ pc'[p] = "analytics" =>
              LET d == txdata[p].data
                  known == \E k \in 1..Len(Tokens) : Tokens[k] = txdata[p].to
                  call == \/ d.selector = "0xa9059cbb" /\ CalldataBytes(d) = 68
                          \/ d.selector = "0x23b872dd" /\ CalldataBytes(d) = 100
              IN /\ Len(rows') = Len(rows) + 1
                 /\ IF call /\ known
                    THEN \E e \in token_transactions' \ token_transactions :
                           /\ token_transactions' = token_transactions \cup {e}
                           /\ e.transaction_id = Len(rows')
                           /\ e.contract_address = txdata[p].to
                           /\ e.to_address = d.addresses[Len(d.addresses)]
                           /\ e.from_address = IF Len(d.addresses) = 2
                                                THEN d.addresses[1] ELSE tx[p].sender
                           /\ e.value = Hex(d.amount)
                    ELSE token_transactions' = token_transactions
      ]_vars

\* a token transfer was recorded for one row and another row has no entry
C32_Witness ==
    /\ \E e \in token_transactions :
          e.contract_address = Tokens[1] /\ e.from_address = "a" /\ e.to_address = "b"
    /\ \E i \in RowIds : \A e \in token_transactions : e.transaction_id # i

\* C33: process_transaction_queue is dispatched by send_transaction only in
\* a step after which the row of the submission is in transactions, and only
\* by calls that succeed: a call that has dispatched it ends with the
\* transaction hash
C33_TriggerAfterCommit ==
    [][\A p \in Calls :
        /\ (triggers' # triggers /\ pc'[p] # pc[p])
             => /\ triggers' = Append(triggers, tx[p].sender)
                /\ Len(rows') = Len(rows) + 1
                /\ rows'[Len(rows')].from_address = tx[p].sender
                /\ rows'[Len(rows')].nonce = tx[p].nonce
        /\ (pc[p] = "analytics" /\ pc'[p] = "unlock")
             => result'[p] = TxHash(tx[p])
    ]_vars

\* C34: a row of transactions is in status error only when a later row of
\* the same sender and nonce, the one that supersedes it, is in the table
C34_OverwriteAtomic ==
    \A i \in RowIds :
        rows[i].status = "error"
        => \E j \in RowIds :
             /\ j > i
             /\ rows[j].from_address = rows[i].from_address
             /\ rows[j].nonce = rows[i].nonce

\* C35: a send_transaction call that gets an error as its result has inserted
\* no row of transactions and no token_transactions entry, has asked for no
\* status change of a row and has dispatched no process_transaction_queue:
\* the step that fails it writes none of these, and it is not taken after
\* the update of the overwritten row was dispatched nor after the insert
C35_ErrorLeavesNoTrace ==
    [][\A p \in Calls :
        (result'[p] # result[p] /\ result'[p].id \notin {"", "ok"})
        => /\ rows' = rows /\ token_transactions' = token_transactions
           /\ updates' = updates /\ triggers' = triggers
           /\ pc[p] # "analytics"
           /\ ~(pc[p] = "insert" /\ existing[p] # 0)
    ]_vars

\* the sender's rows in status new, queued or unconfirmed that no overwrite
\* is about to put in error
PendingOf(a) ==
    {i \in RowIds : /\ rows[i].from_address = a
                    /\ rows[i].status \in Pending
                    /\ [transaction_id |-> i, status |-> "error"] \notin updates}

\* C36: while the balance of a sender on the chain is what it was at the
\* start, the costs value + gas * gas_price of the sender's pending rows,
\* one for each nonce, sum to no more than that balance
C36_PendingWithinBalance ==
    \A a \in Senders :
        (/\ nwBalance[a] = InitialBalance
         /\ \A i, j \in PendingOf(a) : i # j => rows[i].nonce # rows[j].nonce)
        => SumCost(PendingOf(a)) <= nwBalance[a]

\* C37: a pending row with nonce n + 1 comes with a row of the same sender
\* with nonce n that is not in status error, unless n is below the
\* transaction count of the network
C37_GapFree ==
    \A i \in RowIds :
        (rows[i].status \in Pending /\ rows[i].nonce > 0)
        => \/ rows[i].nonce - 1 < nwNonce[rows[i].from_address]
           \/ \E j \in RowIds :
                /\ rows[j].from_address = rows[i].from_address
                /\ rows[j].nonce = rows[i].nonce - 1
                /\ rows[j].status # "error"

\* C40: when the manager puts in error the pending row with the highest
\* nonce of a sender, no other row of the sender that is not in error having
\* that nonce or a higher one, a transaction of the sender with that nonce
\* meets no existing row in the overwrite check and passes the nonce check,
\* whatever its gas price
C40_CancelledNonceFree ==
    [][\A i \in RowIds :
        (/\ rows[i].status \in Pending
         /\ rows'[i].status = "error"
         /\ \A j \in RowIds \ {i} :
              (rows[j].from_address = rows[i].from_address /\ rows[j].status # "error")
              => rows[j].nonce < rows[i].nonce)
        => \A g \in GasPrices :
             LET t == [sender |-> rows[i].from_address, nonce |-> rows[i].nonce,
                       gasprice |-> g, value |-> 0, startgas |-> IntrinsicGas]
             IN /\ (ExistingRows(t))' = {}
                /\ (NonceCheck(t, NextNonce(t.sender, nwNonce[t.sender])))' = NoResult
    ]_vars

\* C38: no step of create_transaction_skeleton writes a row of transactions,
\* a token_transactions entry, a lock key, an update or a trigger; and a
\* skeleton that was asked for without a nonce answers with the one nonce
\* that a send_transaction of the same sender, started in the state the
\* skeleton leaves, finds unused in the overwrite check and sees accepted by
\* the nonce check, which a second skeleton call in that state answers too
C38_SkeletonReservesNothing ==
    [][/\ skel' # skel
            => /\ rows' = rows /\ token_transactions' = token_transactions
               /\ locks' = locks /\ updates' = updates /\ triggers' = triggers
       /\ (skel.pc # "done" /\ skel'.pc = "done" /\ skel'.result = Ok
           /\ skel'.args.nonce = Absent)
            => \A n \in 0..(MaxNonce + 2) :
                 LET t == [sender |-> skel.from_address, nonce |-> n, gasprice |-> 1,
                           value |-> 0, startgas |-> IntrinsicGas]
                 IN (skel'.response.nonce = Hex(n))
                    <=> (/\ (ExistingRows(t))' = {}
                         /\ (NonceCheck(t, NextNonce(t.sender, nwNonce[t.sender])))' = NoResult)
    ]_vars

\* a skeleton answers with nonce 1 after a submission of the sender was
\* accepted with nonce 0
C38_Witness ==
    /\ skel.pc = "done" /\ skel.result = Ok /\ skel.args.nonce = Absent
    /\ skel.response.nonce = Hex(1)
    /\ \E i \in RowIds : rows[i].from_address = skel.from_address /\ rows[i].nonce = 0
    /\ \A p \in Calls : pc[p] = "idle"
====
